---- MODULE Spec2Model ----
(***************************************************************************)
(* A state-machine model of the wimbd n-gram counting engine: the          *)
(* DataExecutor worker pool (cmd/util.rs), the top-K driver (cmd/topk.rs)  *)
(* and the two-pass bottom-K driver (cmd/botk.rs).  The counting table and *)
(* the bounded heap live in the crate's ngrams module; they are modelled   *)
(* from their documented contract.                                          *)
(***************************************************************************)
EXTENDS Integers, Sequences, FiniteSets, TLC

(***************************************************************************)
(* Bounds of the model.                                                    *)
(***************************************************************************)
\* largest value a counter lane of the top-K table can hold (stands for
\* u32::MAX)
TypeMax == 4
\* largest value a counter lane of the bottom-K table can hold (stands for
\* u32::MAX)
U32Max == 6
\* capacity of the merger channel (stands for 512_000)
ChanCap == 1
\* number of transient I/O faults the environment may inject in one run
MaxFaults == 1
\* largest value of a usize (stands for usize::MAX)
UsizeMax == 9
\* largest value a 64-bit counter lane can hold (stands for u64::MAX)
U64Max == UsizeMax

(***************************************************************************)
(* Small helpers.                                                          *)
(***************************************************************************)
Min2(a, b) == IF a <= b THEN a ELSE b
Max2(a, b) == IF a >= b THEN a ELSE b

\* Option<T>: None, or Some(v)
None == <<>>
Some(v) == <<v>>

Tokens == {"a", "b", "c"}

TokenCode(t) == CASE t = "a" -> 1 [] t = "b" -> 2 [] OTHER -> 3

\* every key (n-gram) of n tokens
Keys(n) == [1..n -> Tokens]

(***************************************************************************)
(* NgramCounter: the counting table (ngrams module).                       *)
(***************************************************************************)
\* numeric image of a key, the input of the seeded hash functions
RECURSIVE KeyCode(_)
KeyCode(key) ==
  IF Len(key) = 0 THEN 0
  ELSE KeyCode(SubSeq(key, 1, Len(key) - 1)) * 5 + TokenCode(key[Len(key)])

\* the j-th seeded hash of a key
Hash(seed, j, key) == KeyCode(key) * (seed + j) + j * j

\* hash_j(key) mod L: the lane of table c addressed by the j-th hash function
LaneIndex(c, seed, j, key) == Hash(seed, j, key) % Cardinality(DOMAIN c)

\* faulty variant: the lane wraps around at the top of its range
WrappingAdd(v, d) == (v + d) % (TypeMax + 1)

\* saturating per-lane arithmetic
SaturatingAdd(v, d) == IF v + d > TypeMax THEN TypeMax ELSE v + d
SaturatingSub(v, d) == IF v < d THEN 0 ELSE v - d
\* the same on a 64-bit lane
SaturatingAdd64(v, d) == IF v + d > U64Max THEN U64Max ELSE v + d

\* NgramCounter::new: every lane holds the initial value
NewCounter(size, v0) == [i \in 0..(size - 1) |-> v0]

(***************************************************************************)
(* TopKNgrams: the bounded heap with its published watermark (ngrams       *)
(* module).  The entries are kept in insertion order; the root is the      *)
(* oldest entry among those with the smallest count.                       *)
(***************************************************************************)
NewTopK(k) == [k |-> k, entries |-> <<>>, min_count |-> 0]

\* index of the root: the first entry holding the smallest count
RootIndex(es) ==
  CHOOSE i \in 1..Len(es) :
    /\ \A m \in 1..Len(es) : es[i].count <= es[m].count
    /\ \A m \in 1..(i - 1) : es[m].count > es[i].count

RootCount(es) == es[RootIndex(es)].count

RemoveAt(es, i) == SubSeq(es, 1, i - 1) \o SubSeq(es, i + 1, Len(es))

\* TopKNgrams::insert
TopKInsert(h, ngram, count) ==
  LET e == [ngram |-> ngram, count |-> count]
      es == IF Len(h.entries) < h.k THEN Append(h.entries, e)
            ELSE IF count > RootCount(h.entries)
                 THEN Append(RemoveAt(h.entries, RootIndex(h.entries)), e)
                 ELSE h.entries
  IN  IF es = h.entries THEN h
      ELSE [h EXCEPT !.entries = es, !.min_count = RootCount(es)]

\* index of the first entry holding the largest count
MaxIndex(es) ==
  CHOOSE i \in 1..Len(es) :
    /\ \A m \in 1..Len(es) : es[i].count >= es[m].count
    /\ \A m \in 1..(i - 1) : es[m].count < es[i].count

\* the entries by count descending, a repeated n-gram keeping its highest count
RECURSIVE SortedDedup(_, _)
SortedDedup(es, seen) ==
  IF Len(es) = 0 THEN <<>>
  ELSE LET i == MaxIndex(es)
           rest == RemoveAt(es, i)
       IN  IF es[i].ngram \in seen THEN SortedDedup(rest, seen)
           ELSE <<es[i]>> \o SortedDedup(rest, seen \cup {es[i].ngram})

\* TopKNgrams::drain: the sorted sequence (the heap is left empty)
TopKDrain(h) == SortedDedup(h.entries, {})

(***************************************************************************)
(* The run's inputs: the command line (Opt) and the input files.           *)
(***************************************************************************)
Line(toks) == [kind |-> "text", tokens |-> toks]
\* a record without a `text` field
NoText == [kind |-> "notext", tokens |-> <<>>]
\* a line that is not valid JSON
BadLine == [kind |-> "bad", tokens |-> <<>>]

\* a regular file; ext = "none" is a file name without an extension
File(ext, lines) == [kind |-> "file", ext |-> ext, lines |-> lines]
\* a path that is not a regular file (missing, a directory, an s3:// URI)
NotAFile(kind) == [kind |-> kind, ext |-> "gz", lines |-> <<>>]
\* an object behind an s3:// URI
S3File(lines) == [kind |-> "s3", ext |-> "gz", lines |-> lines]

TopKCorpora ==
  { << File("gz", <<Line(<<"a", "a">>)>>), File("gz", <<Line(<<"a", "b">>)>>) >>,
    << File("gz", <<Line(<<"a", "b", "a">>), NoText>>) >>,
    << File("gz", <<Line(<<"b">>), Line(<<"b", "a">>)>>), File("none", <<>>) >>,
    << File("gz", <<Line(<<"a">>), Line(<<"a">>), Line(<<"a">>)>>) >>,
    << File("gz", <<Line(<<"a", "a", "a">>)>>), File("gz", <<Line(<<"c", "c">>)>>) >>,
    << File("gz", <<Line(<<"a", "a">>), Line(<<"a", "b">>)>>) >>,
    << File("gz", <<NoText, NoText>>), File("gz", <<NoText>>) >> }

TopKOpts ==
  [ task : {"topk"}, ngram : {1, 2}, k : {1, 2}, hashes : {2}, threshold : {1},
    seed : {0}, size : {12, 20}, limit : {None, Some(0), Some(1)},
    workers : {None, Some(1)},
    p_keep : {FALSE},
    search : {<<>>}, pattern : {<<>>}, with_locations : {FALSE},
    use_u64 : {FALSE} ]

\* number of CPUs of the machine
Cpus == 2

VARIABLES
  opt,          \* the parsed command line
  files,        \* the input files, in the order of opt.path
  counter,      \* NgramCounter: the lanes of the counting table
  counts,       \* count, search: the shared counter of each term or pattern
  match_locations,  \* search: per pattern and path, the locations received
  out_path,     \* the path get_output_file opens, None before and without --out
  topk,         \* the global TopKNgrams
  chan,         \* the merger channel (sync_channel)
  job,          \* per path: the job's state in the pool and in process_file
  early_exit,   \* DataExecutor.early_exit
  error,        \* DataExecutor.error, the slot behind the mutex
  errorLock,    \* the job holding the slot's mutex, 0 when it is free
  error_count,  \* DataExecutor.error_count
  panic_count,  \* ThreadPool::panic_count
  total_lines,  \* DataExecutor.total_lines
  max_retries,  \* DataExecutor.max_retries
  mainPc,       \* position of the main thread in the driver
  nextPath,     \* index of the next path the driver enqueues
  pass,         \* 0: top-K; 1, 2: the passes of bottom-K
  result,       \* the driver's return value: "running", "ok" or "err"
  resultErr,    \* the error the driver returns
  output,       \* the ranked list the driver emits
  stats,        \* the shared Stats of the stats driver
  faults,       \* transient I/O faults the environment may still inject
  hist          \* history of the run (observations the claims refer to)

vars == << opt, files, counter, counts, match_locations, out_path, topk, chan, job,
           early_exit, error, errorLock,
           error_count, panic_count, total_lines, max_retries, mainPc,
           nextPath, pass, result, resultErr, output, stats, faults, hist >>

NFiles == Len(files)
JobIds == 1..NFiles

\* a job before the driver enqueues it
NewJob ==
  [ st |-> "idle", pc |-> "open", retries |-> 0, line |-> 0, n_lines |-> 0,
    tok |-> 0, deque |-> <<>>, lane |-> 0, acc |-> 0, local |-> NewTopK(0),
    drained |-> <<>>, cur |-> 0, err |-> None, attempts |-> 0, failed |-> 0,
    skipped |-> 0,
    dataUnderFlag |-> FALSE ]

\* hist.calls[key]: completed increment/decrement calls on key; ret, truth:
\* the value the last table call returned and calls[key] at that moment;
\* rej: the largest count the global watermark test turned down;
\* key: the key of that call; reads: completed max_count calls; sent, recvd: entries sent on and
\* received from the channel; sat: a lane saturated; fatal: a job failed
\* fatally or panicked; firstFatal: the error of the first fatal failure;
\* recorded: the error stored last in the slot; join: what join() returned;
\* snap: the entries the global heap held when it was drained; fs: the driver
\* has accessed the file system; late: the entries the merge loop inserted
\* with early_exit raised; warn: the overflow warning was logged
NewHist(n) ==
  [ calls |-> [key \in Keys(n) |-> 0], ret |-> 0, truth |-> 0, key |-> <<>>,
    reads |-> 0, sat |-> FALSE, rej |-> 0, sent |-> 0, recvd |-> 0,
    fatal |-> FALSE,
    firstFatal |-> None, recorded |-> None, join |-> "none", snap |-> <<>>,
    fs |-> FALSE, late |-> 0, warn |-> FALSE ]

\* faulty variant: a configured value is capped like the default
PoolSizeCapped(max_workers, npaths) ==
  Max2(1, Min2(Min2(IF max_workers = None THEN 64 ELSE max_workers[1],
                    Min2(64, Cpus)),
               npaths))

\* DataExecutor::new: the size of the pool
PoolSize(max_workers, npaths) ==
  Max2(1, Min2(IF max_workers = None THEN Min2(64, Cpus) ELSE max_workers[1],
               npaths))

ActiveCount == Cardinality({j \in JobIds : job[j].st = "running"})
QueuedCount == Cardinality({j \in JobIds : job[j].st = "queued"})

\* faulty variant: an idle pool does not count as done
DoneOnError ==
  \/ panic_count > 0
  \/ early_exit

\* DataExecutor::done
Done ==
  \/ (ActiveCount = 0 /\ QueuedCount = 0)
  \/ panic_count > 0
  \/ early_exit

\* faulty variant: cancellation is not looked at after an entry
HasErrorsOnPanic == panic_count > 0

\* DataExecutor::has_errors
HasErrors == early_exit

(***************************************************************************)
(* Stats and LocalStats (cmd/stats.rs).                                    *)
(***************************************************************************)
\* Stats::default; maxLock and minLock: the holders of the two mutexes
NewStats ==
  [ total_tokens |-> 0, total_documents |-> 0, document_max_tokens |-> 0,
    document_min_tokens |-> UsizeMax, max_token_documents |-> <<>>,
    min_token_documents |-> <<>>, maxLock |-> 0, minLock |-> 0 ]

\* faulty variant: the local totals start from the shared ones
NewLocalStatsCarry(st) ==
  [ total_tokens |-> st.total_tokens, total_documents |-> st.total_documents,
    document_max_tokens |-> st.document_max_tokens,
    document_min_tokens |-> st.document_min_tokens,
    max_token_documents |-> <<>>, min_token_documents |-> <<>> ]

\* local_stats_factory
NewLocalStats(st) ==
  [ total_tokens |-> 0, total_documents |-> 0,
    document_max_tokens |-> st.document_max_tokens,
    document_min_tokens |-> st.document_min_tokens,
    max_token_documents |-> <<>>, min_token_documents |-> <<>> ]

\* data_fn of the stats driver on one record
StatsDataFn(ls, ln, path, line_num) ==
  LET l1 == [ls EXCEPT !.total_documents = @ + 1]
  IN  IF ln.kind # "text" THEN l1
      ELSE LET num_tokens == Len(ln.tokens)
               mx == Max2(num_tokens, l1.document_max_tokens)
               mn == Min2(num_tokens, l1.document_min_tokens)
               ptr == [path |-> path, line |-> line_num,
                       num_tokens |-> num_tokens]
           IN  [l1 EXCEPT
                  !.total_tokens = @ + num_tokens,
                  !.document_max_tokens = mx,
                  !.document_min_tokens = mn,
                  !.max_token_documents =
                      IF num_tokens = mx THEN Append(@, ptr) ELSE @,
                  !.min_token_documents =
                      IF num_tokens = mn THEN Append(@, ptr) ELSE @]

\* the pop loops of Stats::prune_documents
RECURSIVE PruneMax(_, _)
PruneMax(docs, current_max) ==
  IF docs # <<>> /\ Head(docs).num_tokens < current_max
  THEN PruneMax(Tail(docs), current_max) ELSE docs

RECURSIVE PruneMin(_, _)
PruneMin(docs, current_min) ==
  IF docs # <<>> /\ Head(docs).num_tokens > current_min
  THEN PruneMin(Tail(docs), current_min) ELSE docs

\* the pointers sync_stats_callback pushes
RECURSIVE KeepAtLeast(_, _)
KeepAtLeast(docs, current_max) ==
  IF docs = <<>> THEN <<>>
  ELSE (IF Head(docs).num_tokens >= current_max THEN <<Head(docs)>> ELSE <<>>)
       \o KeepAtLeast(Tail(docs), current_max)

RECURSIVE KeepAtMost(_, _)
KeepAtMost(docs, current_min) ==
  IF docs = <<>> THEN <<>>
  ELSE (IF Head(docs).num_tokens <= current_min THEN <<Head(docs)>> ELSE <<>>)
       \o KeepAtMost(Tail(docs), current_min)

(***************************************************************************)
(* The sliding window of collect_ngrams.                                   *)
(***************************************************************************)
\* faulty variant: a full window is emptied, the windows do not overlap
PopAll(deque, n) == IF Len(deque) = n THEN <<>> ELSE deque

\* if ngram_deque.len() == opt.ngram { ngram_deque.pop_front(); }
PopFront(deque, n) == IF Len(deque) = n THEN Tail(deque) ELSE deque

\* Feed tokens from position tok on until the window holds n tokens or the
\* record's tokens are used up.
RECURSIVE FillWindow(_, _, _, _)
FillWindow(tokens, tok, deque, n) ==
  IF tok >= Len(tokens) THEN [tok |-> tok, deque |-> deque, full |-> FALSE]
  ELSE LET popped == PopFront(deque, n)
           pushed == Append(popped, tokens[tok + 1])
       IN  IF Len(pushed) = n
           THEN [tok |-> tok + 1, deque |-> pushed, full |-> TRUE]
           ELSE FillWindow(tokens, tok + 1, pushed, n)

\* <A as Atomic>::Type::max_value() of the top-K run: --u64 selects AtomicU64
LaneMax == IF opt.use_u64 THEN U64Max ELSE TypeMax

\* the value the lane loop of a table operation starts from
AccInit == IF pass = 2 THEN 0 ELSE LaneMax

\* faulty variant: only the first window of a record is counted
FirstWindowOnly(jb, tokens, tok, deque) ==
  LET w == FillWindow(tokens, tok, deque, opt.ngram)
  IN  IF w.full /\ tok = 0
      THEN [jb EXCEPT !.pc = "data", !.tok = w.tok, !.deque = w.deque,
                      !.lane = 1, !.acc = AccInit]
      ELSE [jb EXCEPT !.pc = "line", !.tok = 0, !.deque = w.deque, !.lane = 0]

\* data_fn moves on in the record: to the next full window (a table operation
\* is pending on it) or, the tokens used up, back to process_file's loop
NextWindow(jb, tokens, tok, deque) ==
  LET w == FillWindow(tokens, tok, deque, opt.ngram)
  IN  IF w.full
      THEN [jb EXCEPT !.pc = "data", !.tok = w.tok, !.deque = w.deque,
                      !.lane = 1, !.acc = AccInit]
      ELSE [jb EXCEPT !.pc = "line", !.tok = 0, !.deque = w.deque, !.lane = 0]

CurTokens(j) == files[j].lines[job[j].line].tokens

(***************************************************************************)
(* ThreadPool and process_file (cmd/util.rs).                              *)
(***************************************************************************)
Alive == mainPc # "exit"

Running(j) == Alive /\ job[j].st = "running"

ExecVars == << early_exit, error, errorLock, error_count, panic_count,
               total_lines, max_retries >>
MainVars == << mainPc, nextPath, pass, result, resultErr, output >>
InputVars == << opt, files >>
SearchVars == << counts, match_locations >>
OutVars == << out_path >>

\* a worker of the pool takes the oldest queued job
JobStart(j) ==
  /\ Alive
  /\ job[j].st = "queued"
  /\ \A i \in 1..(j - 1) : job[i].st # "queued"
  /\ ActiveCount < PoolSize(opt.workers, NFiles)
  /\ job' = [job EXCEPT ![j].st = "running", ![j].pc = "open"]
  /\ UNCHANGED << InputVars, SearchVars, OutVars, stats, counter, topk, chan, ExecVars, MainVars, faults,
                  hist >>

\* the terms a driver keeps a counter for: the token sequences of count's
\* search terms, the patterns of search
Terms(o) ==
  IF o.task = "count" THEN { o.search[i] : i \in 1..Len(o.search) }
  ELSE { o.pattern[i] : i \in 1..Len(o.pattern) }

\* counts.insert(.., AtomicUsize::new(0)) for every term
NewCounts(o) == [t \in Terms(o) |-> 0]

\* match_locations: with --with-locations an empty map per pattern, here a
\* function from pattern and path to the matches received (empty: no entry)
NewMatchLocations(o, fs) == [t \in Terms(o) |-> [j \in 1..Len(fs) |-> <<>>]]

\* local_match_locations_factory of the search driver: with --with-locations
\* an empty list per pattern
NewLocalMatchLocations == [t \in Terms(opt) |-> <<>>]

\* what sync_match_locations sends: one (pattern, path, matches) per pattern
\* of the local map, nothing without --with-locations
SearchItems(local, path) ==
  IF ~opt.with_locations THEN <<>>
  ELSE [i \in 1..Len(opt.pattern) |->
          [pattern |-> opt.pattern[i], path |-> path,
           matches |-> local[opt.pattern[i]]]]

\* faulty variant: the largest number of tokens of a search term
MaxSearchLength ==
  CHOOSE m \in { Len(opt.search[i]) : i \in 1..Len(opt.search) } :
    \A i \in 1..Len(opt.search) : m >= Len(opt.search[i])

\* the smallest number of tokens of a search term
MinSearchLength ==
  CHOOSE m \in { Len(opt.search[i]) : i \in 1..Len(opt.search) } :
    \A i \in 1..Len(opt.search) : m <= Len(opt.search[i])

\* faulty variant: the local heap is built one slot too wide
NewLocalWide ==
  IF opt.task = "stats" THEN NewLocalStats(stats) ELSE NewTopK(opt.k + 1)

\* the local state local_factory builds for one attempt
NewLocal ==
  IF opt.task = "stats" THEN NewLocalStats(stats)
  ELSE IF opt.task \in {"count", "unique"} THEN None
  ELSE IF opt.task = "search" THEN NewLocalMatchLocations
  ELSE NewTopK(opt.k)

\* process_file up to its loop: GzBufReader::open and context()
ProcessFileOpen(j) ==
  /\ Running(j)
  /\ job[j].pc = "open"
  /\ LET jb == [job[j] EXCEPT !.attempts = @ + 1]
     IN  IF ~(files[j].kind = "s3") /\ files[j].ext = "none"
         THEN \* path.extension().unwrap() panics
              /\ job' = [job EXCEPT ![j] = [jb EXCEPT !.st = "panicked"]]
              /\ panic_count' = panic_count + 1
              /\ hist' = [hist EXCEPT !.fatal = TRUE]
              /\ UNCHANGED faults
         ELSE \/ /\ job' = [job EXCEPT ![j] =
                       [jb EXCEPT !.pc = "line", !.line = 0, !.n_lines = 0,
                                  !.local = NewLocal]]
                 /\ UNCHANGED << panic_count, faults, hist >>
              \/ /\ faults > 0
                 /\ faults' = faults - 1
                 /\ job' = [job EXCEPT ![j] =
                       [jb EXCEPT !.pc = "err", !.failed = @ + 1,
                                  !.err = Some([path |-> j, cause |-> "open"])]]
                 /\ UNCHANGED << panic_count, hist >>
  /\ UNCHANGED << InputVars, SearchVars, OutVars, stats, counter, topk, chan, early_exit, error, errorLock,
                  error_count, total_lines, max_retries, MainVars >>

\* faulty variant: the flag is not consulted
SkipNever(flag) == FALSE

\* process_line's test at the top of each record
SkipRecord(flag) == flag

\* faulty variant: the `text` field is required
DecodesWithText(ln) == ln.kind = "text"

\* serde_json::from_str into DataInstance: `text` is optional, so every line
\* that is valid JSON decodes
Decodes(ln) == ln.kind # "bad"

\* faulty variant: the limit is not applied
LinesToReadAll(j) == Len(files[j].lines)

\* the number of lines the loop of process_file iterates over
LinesToRead(j) ==
  IF opt.limit = None THEN Len(files[j].lines)
  ELSE Min2(opt.limit[1], Len(files[j].lines))

\* what the job's callback will forward: the drained local heap
CallbackItems(jb) == IF pass = 1 THEN <<>> ELSE TopKDrain(jb.local)

\* faulty variant: the window of the previous record is carried over
StaleDeque(jb) == jb.deque

\* VecDeque::with_capacity(opt.ngram): each record starts on an empty window
NewDeque(jb) == <<>>

\* data_fn is called on a decoded record: the stats driver's works on its
\* local state only; an n-gram driver's runs up to its first table operation
DataFn(jb, ln, path) ==
  IF opt.task = "stats"
  THEN [jb EXCEPT !.local = StatsDataFn(@, ln, path, jb.n_lines)]
  ELSE IF opt.task = "count"
  THEN \* count_occurences starts at index = min_search_length
       IF ln.kind = "text" /\ MinSearchLength <= Len(ln.tokens)
       THEN [jb EXCEPT !.pc = "data", !.tok = MinSearchLength, !.cur = 1]
       ELSE jb
  ELSE IF opt.task = "search"
  THEN \* the scan of the first pattern starts at the first token
       IF ln.kind = "text" /\ Len(ln.tokens) > 0
       THEN [jb EXCEPT !.pc = "data", !.tok = 1, !.cur = 1]
       ELSE jb
  ELSE NextWindow(jb, ln.tokens, 0, NewDeque(jb))

\* one iteration of process_file's loop: read a line and run process_line
\* up to data_fn's first table operation; after the last line, enter callback
ProcessFileLine(j) ==
  /\ Running(j)
  /\ job[j].pc = "line"
  /\ IF job[j].line >= LinesToRead(j)
     THEN /\ job' = IF opt.task = "stats"
                   THEN [job EXCEPT ![j].pc = "sync_counts"]
                   ELSE IF opt.task \in {"count", "unique"}
                   THEN [job EXCEPT ![j].pc = "send", ![j].drained = <<>>]
                   ELSE IF opt.task = "search"
                   THEN [job EXCEPT ![j].pc = "send",
                           ![j].drained = SearchItems(job[j].local, j)]
                   ELSE [job EXCEPT ![j].pc = "send",
                           ![j].drained = CallbackItems(job[j]),
                           ![j].local = [job[j].local EXCEPT !.entries = <<>>]]
          /\ UNCHANGED faults
     ELSE \/ /\ faults > 0
             /\ faults' = faults - 1
             /\ job' = [job EXCEPT ![j].pc = "err", ![j].failed = @ + 1,
                          ![j].err = Some([path |-> j, cause |-> "read"])]
          \/ /\ UNCHANGED faults
             /\ LET ln == files[j].lines[job[j].line + 1]
                    jb == [job[j] EXCEPT !.line = @ + 1]
                IN  IF SkipRecord(early_exit)
                    THEN job' = [job EXCEPT ![j] = [jb EXCEPT !.skipped = @ + 1]]
                    ELSE LET jc == [jb EXCEPT !.n_lines = @ + 1]
                         IN  IF ~Decodes(ln)
                             THEN job' = [job EXCEPT ![j] =
                                    [jc EXCEPT !.pc = "err", !.failed = @ + 1,
                                       !.err = Some([path |-> j, cause |-> "json"])]]
                             ELSE job' = [job EXCEPT ![j] =
                                    DataFn([jc EXCEPT !.dataUnderFlag =
                                              @ \/ early_exit], ln, j)]
  /\ UNCHANGED << InputVars, SearchVars, OutVars, stats, counter, topk, chan, ExecVars, MainVars, hist >>

(***************************************************************************)
(* data_fn of the top-K driver: collect_ngrams (cmd/topk.rs).              *)
(***************************************************************************)
\* faulty variant: the lane is incremented with wrap-around
IncrementLaneWrapping(c, idx, by) == [c EXCEPT ![idx] = WrappingAdd(@, by)]

\* NgramCounter::increment on one lane (saturating fetch-add)
IncrementLane(c, idx, by) ==
  [c EXCEPT ![idx] = IF opt.use_u64 THEN SaturatingAdd64(@, by)
                     ELSE SaturatingAdd(@, by)]

\* the admission test of collect_ngrams
\* faulty variant: a count equal to a watermark is turned down
TopKAdmitStrict(count, threshold, local_min, global_min) ==
  count > threshold /\ count > local_min /\ count > global_min

\* the admission test of collect_ngrams
TopKAdmit(count, threshold, local_min, global_min) ==
  count > threshold /\ count >= local_min /\ count >= global_min

\* the forwarding test of sync_local_topk_callback
TopKForward(count, threshold, global_min) ==
  count > threshold /\ count >= global_min

\* One lane of ngram_counts.increment(&ngram_deque, 1); with the last lane the
\* call returns the minimum of the new lane values and the window is offered
\* to the local heap.
TopKCollect(j) ==
  /\ Running(j)
  /\ pass = 0
  /\ job[j].pc = "data"
  /\ LET jb == job[j]
         key == jb.deque
         idx == LaneIndex(counter, opt.seed, jb.lane, key)
         c2 == IncrementLane(counter, idx, 1)
         acc == Min2(jb.acc, c2[idx])
     IN  /\ counter' = c2
         /\ IF jb.lane < opt.hashes
            THEN /\ job' = [job EXCEPT ![j].lane = @ + 1, ![j].acc = acc]
                 /\ hist' = [hist EXCEPT !.sat = @ \/ counter[idx] = TypeMax]
            ELSE LET count == acc
                     loc == IF TopKAdmit(count, opt.threshold,
                                         jb.local.min_count, topk.min_count)
                            THEN TopKInsert(jb.local, key, count)
                            ELSE jb.local
                 IN  /\ job' = [job EXCEPT ![j] =
                           NextWindow([jb EXCEPT !.local = loc],
                                      CurTokens(j), jb.tok, jb.deque)]
                     /\ hist' = [hist EXCEPT !.calls[key] = @ + 1,
                                             !.ret = count, !.key = key,
                                             !.truth = hist.calls[key] + 1,
                                             !.sat = @ \/ counter[idx] = TypeMax,
                                             !.rej = IF /\ count > opt.threshold
                                                        /\ count >= jb.local.min_count
                                                        /\ count < topk.min_count
                                                     THEN Max2(@, count) ELSE @]
  /\ UNCHANGED << InputVars, SearchVars, OutVars, stats, topk, chan, ExecVars, MainVars, faults >>

(***************************************************************************)
(* data_fn of the bottom-K driver: the two collect_ngrams of cmd/botk.rs.  *)
(***************************************************************************)
\* NgramCounter::decrement on one lane (saturating fetch-sub)
DecrementLane(c, idx, by) == [c EXCEPT ![idx] = SaturatingSub(@, by)]

\* faulty variant: pass 1 adds to the lane
Pass1Increment(c, idx) == IncrementLane(c, idx, 1)

\* the table update pass 1 applies to each lane of a key
Pass1Update(c, idx) == DecrementLane(c, idx, 1)

\* One lane of ngram_counts.decrement(&ngram_deque, 1) in pass 1.
BotKPass1(j) ==
  /\ Running(j)
  /\ pass = 1
  /\ job[j].pc = "data"
  /\ LET jb == job[j]
         key == jb.deque
         idx == LaneIndex(counter, opt.seed, jb.lane, key)
     IN  /\ counter' = Pass1Update(counter, idx)
         /\ IF jb.lane < opt.hashes
            THEN /\ job' = [job EXCEPT ![j].lane = @ + 1]
                 /\ hist' = [hist EXCEPT !.sat = @ \/ counter[idx] = 0]
            ELSE /\ job' = [job EXCEPT ![j] =
                       NextWindow(jb, CurTokens(j), jb.tok, jb.deque)]
                 /\ hist' = [hist EXCEPT !.calls[key] = @ + 1,
                                         !.sat = @ \/ counter[idx] = 0]
  /\ UNCHANGED << InputVars, SearchVars, OutVars, stats, topk, chan, ExecVars, MainVars, faults >>

\* the threshold pass 2's collect_ngrams compares inverse counts with
ThresholdInv(threshold) == U32Max - threshold

\* the admission test of pass 2's collect_ngrams
BotKAdmit(inverse_count, threshold_inv, local_min, global_min) ==
  /\ inverse_count > threshold_inv
  /\ inverse_count >= local_min
  /\ inverse_count >= global_min

\* the threshold sync_local_topk compares inverse counts with
SyncThreshold(threshold) == threshold

\* the forwarding test of sync_local_topk
BotKForward(inverse_count, threshold, global_min) ==
  inverse_count > SyncThreshold(threshold) /\ inverse_count >= global_min

\* One lane of ngram_counts.max_count(&ngram_deque) in pass 2; with the last
\* lane the call returns the maximum and the window is offered to the local
\* heap, unless the p_keep draw drops it.
BotKPass2(j) ==
  /\ Running(j)
  /\ pass = 2
  /\ job[j].pc = "data"
  /\ LET jb == job[j]
         key == jb.deque
         idx == LaneIndex(counter, opt.seed, jb.lane, key)
         acc == Max2(jb.acc, counter[idx])
     IN  IF jb.lane < opt.hashes
         THEN /\ job' = [job EXCEPT ![j].lane = @ + 1, ![j].acc = acc]
              /\ UNCHANGED hist
         ELSE LET inverse_count == acc
                  admit == BotKAdmit(inverse_count, ThresholdInv(opt.threshold),
                                     jb.local.min_count, topk.min_count)
              IN  /\ hist' = [hist EXCEPT !.ret = inverse_count, !.key = key,
                                          !.truth = hist.calls[key],
                                          !.reads = @ + 1]
                  /\ \/ /\ admit
                        /\ job' = [job EXCEPT ![j] =
                              NextWindow([jb EXCEPT !.local =
                                            TopKInsert(@, key, inverse_count)],
                                         CurTokens(j), jb.tok, jb.deque)]
                     \/ /\ ~admit \/ opt.p_keep
                        /\ job' = [job EXCEPT ![j] =
                              NextWindow(jb, CurTokens(j), jb.tok, jb.deque)]
  /\ UNCHANGED << InputVars, SearchVars, OutVars, stats, counter, topk, chan, ExecVars, MainVars, faults >>

(***************************************************************************)
(* merge_fn and the end of the attempt.                                    *)
(***************************************************************************)
\* the test a drained entry passes to be sent to the merger
Forward(count) ==
  IF pass = 0 THEN TopKForward(count, opt.threshold, topk.min_count)
  ELSE BotKForward(count, opt.threshold, topk.min_count)

\* the callback's loop: the next drained entry is tested; one that passes is
\* handed to tx.send, the others are dropped; with no entry left
\* process_file returns Ok and the job adds its line count and ends
JobCallback(j) ==
  /\ Running(j)
  /\ job[j].pc = "send"
  /\ UNCHANGED chan
  /\ IF job[j].drained = <<>>
     THEN /\ total_lines' = total_lines + job[j].n_lines
          /\ job' = [job EXCEPT ![j].st = "finished"]
          /\ UNCHANGED hist
     ELSE LET e == Head(job[j].drained)
          IN  /\ UNCHANGED total_lines
              /\ IF opt.task = "search" \/ Forward(e.count)
                 THEN /\ job' = [job EXCEPT ![j].pc = "tx"]
                      /\ UNCHANGED hist
                 ELSE /\ job' = [job EXCEPT ![j].drained = Tail(@)]
                      /\ hist' = [hist EXCEPT !.rej =
                            IF /\ pass = 0
                               /\ e.count > opt.threshold
                               /\ e.count < topk.min_count
                            THEN Max2(@, e.count) ELSE @]
  /\ UNCHANGED << InputVars, SearchVars, OutVars, stats, counter, topk, early_exit, error, errorLock,
                  error_count, panic_count, max_retries, MainVars, faults >>

\* tx.send of the entry that passed the test; it blocks while the channel
\* is full
JobSend(j) ==
  /\ Running(j)
  /\ job[j].pc = "tx"
  /\ Len(chan) < ChanCap
  /\ chan' = Append(chan, Head(job[j].drained))
  /\ hist' = [hist EXCEPT !.sent = @ + 1]
  /\ job' = [job EXCEPT ![j].drained = Tail(@), ![j].pc = "send"]
  /\ UNCHANGED << InputVars, SearchVars, OutVars, stats, counter, topk, ExecVars, MainVars, faults >>

(***************************************************************************)
(* The Err arm of the job's retry loop (execute_with_callback).            *)
(***************************************************************************)
\* error_count += 1, then try_lock on the slot
JobError(j) ==
  /\ Running(j)
  /\ job[j].pc = "err"
  /\ error_count' = error_count + 1
  /\ IF errorLock = 0
     THEN /\ errorLock' = j
          /\ job' = [job EXCEPT ![j].pc = "errw"]
     ELSE /\ job' = [job EXCEPT ![j].pc = "retry"]
          /\ UNCHANGED errorLock
  /\ UNCHANGED << InputVars, SearchVars, OutVars, stats, counter, topk, chan, early_exit, error,
                  panic_count, total_lines, max_retries, MainVars, faults, hist >>

\* the guarded assignment **error = Some(..), then the guard is dropped
JobErrorWrite(j) ==
  /\ Running(j)
  /\ job[j].pc \in {"errw", "fatalw"}
  /\ errorLock = j
  /\ error' = job[j].err
  /\ errorLock' = 0
  /\ hist' = [hist EXCEPT !.recorded = job[j].err]
  /\ job' = [job EXCEPT ![j].pc = IF @ = "errw" THEN "retry" ELSE "open",
                        ![j].st = IF job[j].pc = "errw" THEN @ ELSE "finished"]
  /\ UNCHANGED << InputVars, SearchVars, OutVars, stats, counter, topk, chan, early_exit, error_count,
                  panic_count, total_lines, max_retries, MainVars, faults >>

\* faulty variant: one retry too many
RetriesExceeded(retries, max) == retries > max

\* retries >= max_retries: the error is fatal
RetriesExhausted(retries, max) == retries >= max

\* the retry decision: fatal (early_exit is raised, the slot written, the
\* job ends) or another attempt
JobRetry(j) ==
  /\ Running(j)
  /\ job[j].pc = "retry"
  /\ IF RetriesExhausted(job[j].retries, max_retries)
     THEN /\ early_exit' = TRUE
          /\ hist' = [hist EXCEPT !.fatal = TRUE,
                        !.firstFatal = IF @ = None THEN job[j].err ELSE @]
          /\ IF errorLock = 0
             THEN /\ errorLock' = j
                  /\ job' = [job EXCEPT ![j].pc = "fatalw"]
             ELSE /\ job' = [job EXCEPT ![j].st = "finished"]
                  /\ UNCHANGED errorLock
     ELSE /\ job' = [job EXCEPT ![j].retries = @ + 1, ![j].pc = "open",
                                ![j].err = None]
          /\ UNCHANGED << early_exit, errorLock, hist >>
  /\ UNCHANGED << InputVars, SearchVars, OutVars, stats, counter, topk, chan, error, error_count,
                  panic_count, total_lines, max_retries, MainVars, faults >>

(***************************************************************************)
(* The driver's main thread (cmd/topk.rs topk, cmd/botk.rs main).          *)
(***************************************************************************)
\* Path::is_file
IsFile(f) == f.kind = "file"

\* is_s3: the path starts with s3://
IsS3(f) == f.kind = "s3"

\* execute_with_callback for the next path; after the last path, drop(tx)
\* and on to the merge loop
Enqueue ==
  /\ mainPc = "enqueue"
  /\ IF nextPath > NFiles
     THEN /\ mainPc' = IF opt.task \in {"stats", "count", "unique"}
                        THEN "join"
                        ELSE IF pass = 1 THEN "join1" ELSE "loop"
          /\ UNCHANGED << job, early_exit, result, resultErr, nextPath >>
     ELSE IF ~IsFile(files[nextPath])
     THEN /\ early_exit' = TRUE
          /\ result' = "err"
          /\ resultErr' = Some([path |-> nextPath, cause |-> "not a file"])
          /\ mainPc' = "exit"
          /\ UNCHANGED << job, nextPath >>
     ELSE /\ job' = [job EXCEPT ![nextPath].st = "queued"]
          /\ nextPath' = nextPath + 1
          /\ UNCHANGED << mainPc, early_exit, result, resultErr >>
  /\ UNCHANGED << InputVars, SearchVars, OutVars, stats, counter, topk, chan, error, errorLock,
                  error_count, panic_count, total_lines, max_retries, pass,
                  output, faults, hist >>

\* while !executor.done()
MergeLoopTest ==
  /\ mainPc = "loop"
  /\ mainPc' = IF Done THEN "join"
               ELSE IF opt.task = "search" /\ ~opt.with_locations THEN "loop"
               ELSE "recv"
  /\ UNCHANGED << InputVars, SearchVars, OutVars, stats, counter, topk, chan, job, ExecVars, nextPath,
                  pass, result, resultErr, output, faults, hist >>

\* rx.recv_timeout returns an entry: topk.insert(ngram, count)
MergeRecv ==
  /\ mainPc = "recv"
  /\ chan # <<>>
  /\ chan' = Tail(chan)
  /\ topk' = TopKInsert(topk, Head(chan).ngram, Head(chan).count)
  /\ hist' = [hist EXCEPT !.recvd = @ + 1,
                          !.late = IF early_exit THEN @ + 1 ELSE @]
  /\ mainPc' = "has_errors"
  /\ UNCHANGED << InputVars, SearchVars, OutVars, stats, counter, job, ExecVars, nextPath, pass, result,
                  resultErr, output, faults >>

\* rx.recv_timeout returns Err: the second elapsed with the channel empty,
\* or every sender is gone
MergeRecvTimeout ==
  /\ mainPc = "recv"
  /\ chan = <<>>
  /\ mainPc' = "loop"
  /\ UNCHANGED << InputVars, SearchVars, OutVars, stats, counter, topk, chan, job, ExecVars, nextPath,
                  pass, result, resultErr, output, faults, hist >>

\* if executor.has_errors() { break }
MergeHasErrors ==
  /\ mainPc = "has_errors"
  /\ mainPc' = IF HasErrors THEN "loop" ELSE "recv"
  /\ UNCHANGED << InputVars, SearchVars, OutVars, stats, counter, topk, chan, job, ExecVars, nextPath,
                  pass, result, resultErr, output, faults, hist >>

\* faulty variant: the pool is not waited for
PoolNotAwaited == TRUE

\* ThreadPool::join returns once no job is queued or active
PoolIdle == ActiveCount = 0 /\ QueuedCount = 0

\* faulty variant: recoverable errors fail the join as well
JoinFailsOnAnyError == early_exit \/ panic_count > 0 \/ error_count > 0

\* faulty variant: worker panics are not looked at
JoinFailsOnEarlyExit == early_exit

\* the test of DataExecutor::join after the pool is idle
JoinFails == early_exit \/ panic_count > 0

\* faulty variant: the slot is not consulted
JoinErrorGeneric ==
  Some([path |-> 0, cause |-> "Thread worker(s) finished with errors"])

\* the error DataExecutor::join bails with
JoinError ==
  IF errorLock = 0 /\ error # None THEN error
  ELSE Some([path |-> 0, cause |-> "Thread worker(s) finished with errors"])

\* executor.join()? after the merge loop
Join ==
  /\ mainPc = "join"
  /\ PoolIdle
  /\ IF JoinFails
     THEN /\ result' = "err"
          /\ resultErr' = JoinError
          /\ mainPc' = "exit"
     ELSE /\ mainPc' = "drain"
          /\ UNCHANGED << result, resultErr >>
  /\ hist' = [hist EXCEPT !.join = IF JoinFails THEN "err" ELSE "ok"]
  /\ UNCHANGED << InputVars, SearchVars, OutVars, stats, counter, topk, chan, job, ExecVars, nextPath,
                  pass, output, faults >>

\* faulty variant: the count is inverted in every task
ReportedInverse(c) == TypeMax - c

\* the count written for a drained entry
ReportedCount(c) == IF pass = 0 THEN c ELSE U32Max - c

\* faulty variant: the counts are compared with u32::MAX whatever the lane
WarnAboutOverflowsU32(list) ==
  \E i \in 1..Len(list) : list[i].count = TypeMax

\* warn_about_overflows: an entry's count is the lane type's max_value()
WarnAboutOverflows(list) ==
  \E i \in 1..Len(list) : list[i].count = LaneMax

\* topk.drain() and the ranked output; the driver returns Ok
Emit ==
  /\ mainPc = "drain"
  /\ output' = [i \in 1..Len(TopKDrain(topk)) |->
                  [ngram |-> TopKDrain(topk)[i].ngram,
                   count |-> ReportedCount(TopKDrain(topk)[i].count),
                   rank |-> i]]
  /\ topk' = [topk EXCEPT !.entries = <<>>]
  /\ result' = "ok"
  /\ mainPc' = "exit"
  /\ hist' = [hist EXCEPT !.snap = topk.entries,
                          !.warn = pass = 0 /\ WarnAboutOverflows(TopKDrain(topk))]
  /\ UNCHANGED << InputVars, SearchVars, OutVars, stats, counter, chan, job, ExecVars, nextPath, pass,
                  resultErr, faults >>

(***************************************************************************)
(* The top-K run.                                                          *)
(***************************************************************************)
\* the length of the lane array: the byte budget over the lane's 4 bytes
CounterSize(size) == size \div 4

\* DataExecutor::new sets max_retries to 0; the stats driver raises it to 2
MaxRetries(task) == IF task = "stats" THEN 2 ELSE 0

InitRun(o, fs) ==
  /\ opt = o
  /\ files = fs
  /\ topk = NewTopK(o.k)
  /\ chan = <<>>
  /\ job = [j \in 1..Len(fs) |-> NewJob]
  /\ early_exit = FALSE
  /\ error = None
  /\ errorLock = 0
  /\ error_count = 0
  /\ panic_count = 0
  /\ total_lines = 0
  /\ max_retries = MaxRetries(o.task)
  /\ nextPath = 1
  /\ result = "running"
  /\ resultErr = None
  /\ output = <<>>
  /\ stats = NewStats
  /\ counts = NewCounts(o)
  /\ match_locations = NewMatchLocations(o, fs)
  /\ out_path = None
  /\ faults = MaxFaults
  /\ hist = NewHist(o.ngram)

Init ==
  \E o \in TopKOpts, fs \in TopKCorpora :
    /\ InitRun(o, fs)
    /\ counter = NewCounter(CounterSize(o.size), 0)
    /\ pass = 0
    /\ mainPc = "enqueue"

Next ==
  \/ Enqueue
  \/ MergeLoopTest
  \/ MergeRecv
  \/ MergeRecvTimeout
  \/ MergeHasErrors
  \/ Join
  \/ Emit
  \/ \E j \in JobIds : JobStart(j)
  \/ \E j \in JobIds : ProcessFileOpen(j)
  \/ \E j \in JobIds : ProcessFileLine(j)
  \/ \E j \in JobIds : TopKCollect(j)
  \/ \E j \in JobIds : JobCallback(j)
  \/ \E j \in JobIds : JobSend(j)
  \/ \E j \in JobIds : JobError(j)
  \/ \E j \in JobIds : JobErrorWrite(j)
  \/ \E j \in JobIds : JobRetry(j)

Spec == Init /\ [][Next]_vars

(***************************************************************************)
(* The top-K run under fair scheduling: the main thread and every worker   *)
(* thread of the pool keep taking steps while they can.                    *)
(***************************************************************************)
\* the longest path list of the corpora
MaxFiles == 3

\* a file whose three keys all reach the local heap next to a short file, a
\* path without extension, a single file
FairCorpora ==
  { << File("gz", <<Line(<<"a", "a", "b", "b", "c", "c">>)>>),
       File("gz", <<Line(<<"a">>)>>) >>,
    << File("gz", <<Line(<<"b">>), Line(<<"b", "a">>)>>), File("none", <<>>) >>,
    << File("gz", <<Line(<<"a", "a">>), NoText>>) >> }

FairOpts ==
  [ task : {"topk"}, ngram : {1}, k : {1, 3}, hashes : {2}, threshold : {1},
    seed : {0}, size : {20}, limit : {None}, workers : {None, Some(1)},
    p_keep : {FALSE},
    search : {<<>>}, pattern : {<<>>}, with_locations : {FALSE},
    use_u64 : {FALSE} ]

InitFair ==
  \E o \in FairOpts, fs \in FairCorpora :
    /\ InitRun(o, fs)
    /\ counter = NewCounter(CounterSize(o.size), 0)
    /\ pass = 0
    /\ mainPc = "enqueue"

\* the steps of the main thread
MainNext ==
  \/ Enqueue
  \/ MergeLoopTest
  \/ MergeRecv
  \/ MergeRecvTimeout
  \/ MergeHasErrors
  \/ Join
  \/ Emit

\* the steps of the pool's worker on job j
WorkerNext(j) ==
  /\ j \in JobIds
  /\ \/ JobStart(j)
     \/ ProcessFileOpen(j)
     \/ ProcessFileLine(j)
     \/ TopKCollect(j)
     \/ JobCallback(j)
     \/ JobSend(j)
     \/ JobError(j)
     \/ JobErrorWrite(j)
     \/ JobRetry(j)

\* the operating system schedules every runnable thread eventually
Fairness ==
  /\ WF_vars(MainNext)
  /\ \A j \in 1..MaxFiles : WF_vars(WorkerNext(j))

SpecFair == InitFair /\ [][Next]_vars /\ Fairness

(***************************************************************************)
(* The bottom-K run: pass 1, then pass 2 on a new executor.                *)
(***************************************************************************)
BotKCorpora ==
  { << File("gz", <<Line(<<"b", "a", "c">>), Line(<<"b", "a", "c">>)>>) >>,
    << File("gz", <<Line(<<"a", "b">>)>>), File("gz", <<Line(<<"b", "a">>)>>) >>,
    << File("gz", <<Line(<<"b", "b", "b", "b">>)>>) >>,
    << File("gz", <<Line(<<"c", "c">>)>>), File("gz", <<Line(<<"a">>)>>) >> }

BotKOpts ==
  [ task : {"botk"}, ngram : {1, 2}, k : {2}, hashes : {2},
    threshold : {U32Max, 3}, seed : {0}, size : {12, 20}, limit : {None},
    workers : {None}, p_keep : BOOLEAN,
    search : {<<>>}, pattern : {<<>>}, with_locations : {FALSE},
    use_u64 : {FALSE} ]

\* executor.join()? after pass 1, then DataExecutor::new, TopKNgrams::new and
\* sync_channel for pass 2
JoinPass1 ==
  /\ mainPc = "join1"
  /\ PoolIdle
  /\ IF JoinFails
     THEN /\ result' = "err"
          /\ resultErr' = JoinError
          /\ mainPc' = "exit"
          /\ UNCHANGED << job, topk, chan, ExecVars, nextPath, pass >>
     ELSE /\ job' = [j \in JobIds |-> NewJob]
          /\ topk' = NewTopK(opt.k)
          /\ chan' = <<>>
          /\ early_exit' = FALSE
          /\ error' = None
          /\ errorLock' = 0
          /\ error_count' = 0
          /\ panic_count' = 0
          /\ total_lines' = 0
          /\ max_retries' = 0
          /\ nextPath' = 1
          /\ pass' = 2
          /\ mainPc' = "enqueue"
          /\ UNCHANGED << result, resultErr >>
  /\ hist' = [hist EXCEPT !.join = IF JoinFails THEN "err" ELSE "ok"]
  /\ UNCHANGED << InputVars, SearchVars, OutVars, stats, counter, output, faults >>

InitBotK ==
  \E o \in BotKOpts, fs \in BotKCorpora :
    /\ InitRun(o, fs)
    /\ counter = NewCounter(CounterSize(o.size), U32Max)
    /\ pass = 1
    /\ mainPc = "enqueue"

NextBotK ==
  \/ Enqueue
  \/ JoinPass1
  \/ MergeLoopTest
  \/ MergeRecv
  \/ MergeRecvTimeout
  \/ MergeHasErrors
  \/ Join
  \/ Emit
  \/ \E j \in JobIds : JobStart(j)
  \/ \E j \in JobIds : ProcessFileOpen(j)
  \/ \E j \in JobIds : ProcessFileLine(j)
  \/ \E j \in JobIds : BotKPass1(j)
  \/ \E j \in JobIds : BotKPass2(j)
  \/ \E j \in JobIds : JobCallback(j)
  \/ \E j \in JobIds : JobSend(j)
  \/ \E j \in JobIds : JobError(j)
  \/ \E j \in JobIds : JobErrorWrite(j)
  \/ \E j \in JobIds : JobRetry(j)

SpecBotK == InitBotK /\ [][NextBotK]_vars

(***************************************************************************)
(* The stats run (cmd/stats.rs main): sync_stats_callback, step by step.   *)
(***************************************************************************)
StatsCorpora ==
  { << File("gz", <<Line(<<"a", "b">>), Line(<<"a">>)>>),
       File("gz", <<Line(<<"a", "b", "c">>)>>) >>,
    << File("gz", <<Line(<<"a">>), BadLine>>), File("gz", <<NoText>>) >>,
    << File("gz", <<Line(<<"a">>)>>), File("none", <<>>) >>,
    << File("gz", <<Line(<<"a">>)>>), File("gz", <<Line(<<"b">>)>>),
       File("gz", <<Line(<<"c">>)>>) >> }

StatsOpts ==
  [ task : {"stats"}, ngram : {1}, k : {1}, hashes : {1}, threshold : {0},
    seed : {0}, size : {12}, limit : {None}, workers : {None, Some(0), Some(3)},
    p_keep : {FALSE},
    search : {<<>>}, pattern : {<<>>}, with_locations : {FALSE},
    use_u64 : {FALSE} ]

\* the two fetch_add and fetch_max
SyncCounts(j) ==
  /\ Running(j)
  /\ job[j].pc = "sync_counts"
  /\ stats' = [stats EXCEPT
        !.total_tokens = @ + job[j].local.total_tokens,
        !.total_documents = @ + job[j].local.total_documents,
        !.document_max_tokens = Max2(@, job[j].local.document_max_tokens)]
  /\ job' = [job EXCEPT ![j].pc = "sync_min"]
  /\ UNCHANGED << InputVars, SearchVars, OutVars, counter, topk, chan, ExecVars, MainVars, faults,
                  hist >>

\* fetch_min
SyncMin(j) ==
  /\ Running(j)
  /\ job[j].pc = "sync_min"
  /\ stats' = [stats EXCEPT
        !.document_min_tokens = Min2(@, job[j].local.document_min_tokens)]
  /\ job' = [job EXCEPT ![j].pc = "prune_load_max"]
  /\ UNCHANGED << InputVars, SearchVars, OutVars, counter, topk, chan, ExecVars, MainVars, faults,
                  hist >>

\* a load of document_max_tokens or document_min_tokens into current_max or
\* current_min, in prune_documents and in the callback
SyncLoad(j) ==
  /\ Running(j)
  /\ job[j].pc \in {"prune_load_max", "prune_load_min", "push_load_max",
                    "push_load_min"}
  /\ job' = [job EXCEPT
        ![j].cur = IF job[j].pc \in {"prune_load_max", "push_load_max"}
                   THEN stats.document_max_tokens
                   ELSE stats.document_min_tokens,
        ![j].pc = CASE @ = "prune_load_max" -> "prune_max"
                    [] @ = "prune_load_min" -> "prune_min"
                    [] @ = "push_load_max" -> "push_max"
                    [] OTHER -> "push_min"]
  /\ UNCHANGED << InputVars, SearchVars, OutVars, stats, counter, topk, chan, ExecVars, MainVars,
                  faults, hist >>

\* prune_documents: lock max_token_documents and pop
SyncPruneMax(j) ==
  /\ Running(j)
  /\ job[j].pc = "prune_max"
  /\ stats.maxLock = 0
  /\ stats' = [stats EXCEPT !.maxLock = j,
        !.max_token_documents = PruneMax(@, job[j].cur)]
  /\ job' = [job EXCEPT ![j].pc = "prune_load_min"]
  /\ UNCHANGED << InputVars, SearchVars, OutVars, counter, topk, chan, ExecVars, MainVars, faults,
                  hist >>

\* prune_documents: lock min_token_documents and pop; both guards are
\* dropped on return
SyncPruneMin(j) ==
  /\ Running(j)
  /\ job[j].pc = "prune_min"
  /\ stats.minLock = 0
  /\ stats' = [stats EXCEPT !.maxLock = 0,
        !.min_token_documents = PruneMin(@, job[j].cur)]
  /\ job' = [job EXCEPT ![j].pc = "push_load_max"]
  /\ UNCHANGED << InputVars, SearchVars, OutVars, counter, topk, chan, ExecVars, MainVars, faults,
                  hist >>

\* the callback locks max_token_documents and pushes the local pointers
SyncPushMax(j) ==
  /\ Running(j)
  /\ job[j].pc = "push_max"
  /\ stats.maxLock = 0
  /\ stats' = [stats EXCEPT !.maxLock = j,
        !.max_token_documents =
            @ \o KeepAtLeast(job[j].local.max_token_documents, job[j].cur)]
  /\ job' = [job EXCEPT ![j].pc = "push_load_min"]
  /\ UNCHANGED << InputVars, SearchVars, OutVars, counter, topk, chan, ExecVars, MainVars, faults,
                  hist >>

\* the callback locks min_token_documents and pushes; it returns Ok, the
\* guards are dropped, process_file returns Ok and the job ends
SyncPushMin(j) ==
  /\ Running(j)
  /\ job[j].pc = "push_min"
  /\ stats.minLock = 0
  /\ stats' = [stats EXCEPT !.maxLock = 0,
        !.min_token_documents =
            @ \o KeepAtMost(job[j].local.min_token_documents, job[j].cur)]
  /\ total_lines' = total_lines + job[j].n_lines
  /\ job' = [job EXCEPT ![j].st = "finished"]
  /\ UNCHANGED << InputVars, SearchVars, OutVars, counter, topk, chan, early_exit, error, errorLock,
                  error_count, panic_count, max_retries, MainVars, faults, hist >>

\* executor.join()?, then the final prune_documents and the output
JoinStats ==
  /\ mainPc = "join"
  /\ PoolIdle
  /\ IF JoinFails
     THEN /\ result' = "err"
          /\ resultErr' = JoinError
          /\ UNCHANGED << stats, output >>
     ELSE /\ result' = "ok"
          /\ stats' = [stats EXCEPT
                !.max_token_documents = PruneMax(@, stats.document_max_tokens),
                !.min_token_documents = PruneMin(@, stats.document_min_tokens)]
          /\ output' = <<>>
          /\ UNCHANGED resultErr
  /\ mainPc' = "exit"
  /\ hist' = [hist EXCEPT !.join = IF JoinFails THEN "err" ELSE "ok"]
  /\ UNCHANGED << InputVars, SearchVars, OutVars, counter, topk, chan, job, ExecVars, nextPath,
                  pass, faults >>

InitStats ==
  \E o \in StatsOpts, fs \in StatsCorpora :
    /\ InitRun(o, fs)
    /\ counter = NewCounter(CounterSize(o.size), 0)
    /\ pass = 0
    /\ mainPc = "enqueue"

NextStats ==
  \/ Enqueue
  \/ JoinStats
  \/ \E j \in JobIds : JobStart(j)
  \/ \E j \in JobIds : ProcessFileOpen(j)
  \/ \E j \in JobIds : ProcessFileLine(j)
  \/ \E j \in JobIds : SyncCounts(j)
  \/ \E j \in JobIds : SyncMin(j)
  \/ \E j \in JobIds : SyncLoad(j)
  \/ \E j \in JobIds : SyncPruneMax(j)
  \/ \E j \in JobIds : SyncPruneMin(j)
  \/ \E j \in JobIds : SyncPushMax(j)
  \/ \E j \in JobIds : SyncPushMin(j)
  \/ \E j \in JobIds : JobError(j)
  \/ \E j \in JobIds : JobErrorWrite(j)
  \/ \E j \in JobIds : JobRetry(j)

SpecStats == InitStats /\ [][NextStats]_vars

(***************************************************************************)
(* The exact-count run (cmd/count.rs).                                     *)
(***************************************************************************)
CountCorpora ==
  { << File("gz", <<Line(<<"a", "b", "a", "b">>)>>) >>,
    << File("gz", <<Line(<<"a", "a", "a">>), NoText>>),
       File("gz", <<Line(<<"b", "a", "b">>)>>) >>,
    << File("gz", <<Line(<<"a", "b">>), BadLine>>),
       File("gz", <<Line(<<"b">>), Line(<<"a", "b">>)>>) >> }

\* the search terms as token sequences, each term once
CountOpts ==
  [ task : {"count"}, ngram : {1}, k : {1}, hashes : {1}, threshold : {0},
    seed : {0}, size : {12}, limit : {None, Some(1)}, workers : {None},
    p_keep : {FALSE},
    search : { << <<"a", "b">> >>, << <<"a", "a">>, <<"b">> >> },
    pattern : {<<>>}, with_locations : {FALSE},
    use_u64 : {FALSE} ]

\* One comparison of count_occurences: the slice of the tokens that ends at
\* index is compared with a search term; on equality count.fetch_add(1).
CountOccurences(j) ==
  /\ Running(j)
  /\ opt.task = "count"
  /\ job[j].pc = "data"
  /\ LET tokens == CurTokens(j)
         index == job[j].tok
         search == opt.search[job[j].cur]
         hit == /\ Len(search) <= index
                /\ SubSeq(tokens, index - Len(search) + 1, index) = search
     IN  /\ counts' = IF hit THEN [counts EXCEPT ![search] = @ + 1] ELSE counts
         /\ job' = IF job[j].cur < Len(opt.search)
                   THEN [job EXCEPT ![j].cur = @ + 1]
                   ELSE IF index < Len(tokens)
                   THEN [job EXCEPT ![j].tok = @ + 1, ![j].cur = 1]
                   ELSE [job EXCEPT ![j].pc = "line", ![j].tok = 0, ![j].cur = 0]
  /\ UNCHANGED << InputVars, OutVars, match_locations, stats, counter, topk, chan, ExecVars,
                  MainVars, faults, hist >>

\* the loop over counts after executor.join()?: one output line per term
CountEmit ==
  /\ mainPc = "drain"
  /\ opt.task = "count"
  /\ output' = [i \in 1..Len(opt.search) |->
                  [tokens |-> opt.search[i], count |-> counts[opt.search[i]]]]
  /\ result' = "ok"
  /\ mainPc' = "exit"
  /\ UNCHANGED << InputVars, SearchVars, OutVars, stats, counter, topk, chan, job, ExecVars,
                  nextPath, pass, resultErr, faults, hist >>

InitCount ==
  \E o \in CountOpts, fs \in CountCorpora :
    /\ InitRun(o, fs)
    /\ counter = <<>>
    /\ pass = 0
    /\ mainPc = "enqueue"

NextCount ==
  \/ Enqueue
  \/ Join
  \/ CountEmit
  \/ \E j \in JobIds : JobStart(j)
  \/ \E j \in JobIds : ProcessFileOpen(j)
  \/ \E j \in JobIds : ProcessFileLine(j)
  \/ \E j \in JobIds : CountOccurences(j)
  \/ \E j \in JobIds : JobCallback(j)
  \/ \E j \in JobIds : JobError(j)
  \/ \E j \in JobIds : JobErrorWrite(j)
  \/ \E j \in JobIds : JobRetry(j)

SpecCount == InitCount /\ [][NextCount]_vars

(***************************************************************************)
(* The regex-search run (cmd/search.rs).  A pattern is a literal token and *)
(* its matches in a record are the positions of that token.                *)
(***************************************************************************)
SearchCorpora ==
  { << File("gz", <<Line(<<"a", "b", "a">>)>>) >>,
    << File("gz", <<Line(<<"a">>)>>),
       File("gz", <<Line(<<"b", "a">>), Line(<<"a">>)>>) >>,
    << File("gz", <<BadLine>>), File("gz", <<Line(<<"a">>), NoText>>) >> }

SearchOpts ==
  [ task : {"search"}, ngram : {1}, k : {1}, hashes : {1}, threshold : {0},
    seed : {0}, size : {12}, limit : {None}, workers : {None},
    p_keep : {FALSE}, search : {<<>>},
    pattern : { <<"a">>, <<"a", "b">> }, with_locations : BOOLEAN,
    use_u64 : {FALSE} ]

\* One step of `for m in regex.find_iter(&text)` over the patterns: at a match
\* counts[pattern].fetch_add(1) and, with --with-locations, the location is
\* pushed to the job's local list of the pattern.
SearchFind(j) ==
  /\ Running(j)
  /\ opt.task = "search"
  /\ job[j].pc = "data"
  /\ LET tokens == CurTokens(j)
         pattern == opt.pattern[job[j].cur]
         col == job[j].tok
         hit == tokens[col] = pattern
         match_location == [line |-> job[j].n_lines, start_col |-> col - 1,
                            end_col |-> col]
         jb == IF hit /\ opt.with_locations
               THEN [job[j] EXCEPT !.local[pattern] = Append(@, match_location)]
               ELSE job[j]
     IN  /\ counts' = IF hit THEN [counts EXCEPT ![pattern] = @ + 1] ELSE counts
         /\ job' = [job EXCEPT ![j] =
               IF col < Len(tokens) THEN [jb EXCEPT !.tok = @ + 1]
               ELSE IF jb.cur < Len(opt.pattern)
               THEN [jb EXCEPT !.cur = @ + 1, !.tok = 1]
               ELSE [jb EXCEPT !.pc = "line", !.tok = 0, !.cur = 0]]
  /\ UNCHANGED << InputVars, OutVars, match_locations, stats, counter, topk, chan, ExecVars,
                  MainVars, faults, hist >>

\* rx.recv_timeout returns (pattern, path, matches): non-empty matches are
\* stored under the pattern and the path; the inner loop goes on receiving
SearchRecv ==
  /\ mainPc = "recv"
  /\ opt.task = "search"
  /\ chan # <<>>
  /\ chan' = Tail(chan)
  /\ match_locations' =
       IF Head(chan).matches # <<>>
       THEN [match_locations EXCEPT ![Head(chan).pattern][Head(chan).path] =
               Head(chan).matches]
       ELSE match_locations
  /\ hist' = [hist EXCEPT !.recvd = @ + 1]
  /\ UNCHANGED << InputVars, OutVars, counts, stats, counter, topk, job, ExecVars, MainVars,
                  output, faults >>

\* the loop over counts after executor.join()?: one output line per pattern
\* with its count and the locations received for it
SearchEmit ==
  /\ mainPc = "drain"
  /\ opt.task = "search"
  /\ output' = [i \in 1..Len(opt.pattern) |->
                  [pattern |-> opt.pattern[i], count |-> counts[opt.pattern[i]],
                   matches |-> match_locations[opt.pattern[i]]]]
  /\ result' = "ok"
  /\ mainPc' = "exit"
  /\ UNCHANGED << InputVars, SearchVars, OutVars, stats, counter, topk, chan, job, ExecVars,
                  nextPath, pass, resultErr, faults, hist >>

InitSearch ==
  \E o \in SearchOpts, fs \in SearchCorpora :
    /\ InitRun(o, fs)
    /\ counter = <<>>
    /\ pass = 0
    /\ mainPc = "enqueue"

NextSearch ==
  \/ Enqueue
  \/ MergeLoopTest
  \/ SearchRecv
  \/ MergeRecvTimeout
  \/ Join
  \/ SearchEmit
  \/ \E j \in JobIds : JobStart(j)
  \/ \E j \in JobIds : ProcessFileOpen(j)
  \/ \E j \in JobIds : ProcessFileLine(j)
  \/ \E j \in JobIds : SearchFind(j)
  \/ \E j \in JobIds : JobCallback(j)
  \/ \E j \in JobIds : JobSend(j)
  \/ \E j \in JobIds : JobError(j)
  \/ \E j \in JobIds : JobErrorWrite(j)
  \/ \E j \in JobIds : JobRetry(j)

SpecSearch == InitSearch /\ [][NextSearch]_vars

(***************************************************************************)
(* The entry points: main of cmd/topk.rs, cmd/botk.rs and cmd/unique.rs,   *)
(* from the parsed command line to the allocated counting table.           *)
(***************************************************************************)
\* the path lists of the entry points; the directory holds no *.json*.gz file
MainCorpora ==
  { <<>>,
    << File("gz", <<Line(<<"a">>)>>) >>,
    << NotAFile("dir") >> }

MainOpts ==
  [ task : {"topk", "botk", "unique"}, ngram : {0, 1}, k : {0, 1},
    hashes : {0, 2}, threshold : {1}, seed : {0}, size : {0, 12},
    limit : {None}, workers : {None}, p_keep : {FALSE},
    search : {<<>>}, pattern : {<<>>}, with_locations : {FALSE},
    use_u64 : {FALSE} ]

\* which drivers call expand_dirs first
ExpandsDirs(task) == task \in {"topk", "unique", "stats"}

\* expand_dirs: the error it bails with, None when it returns the paths
ExpandDirsError(fs) ==
  IF \E i \in 1..Len(fs) : fs[i].kind = "dir"
  THEN Some([path |-> 0, cause |-> "No JSON Gz files found"])
  ELSE None

\* the argument checks of main in the order of the code: the message of the
\* first one that fails, None when all pass
ValidateError(o, fs) ==
  IF o.task \in {"botk", "unique", "stats"} /\ fs = <<>>
    THEN Some([path |-> 0, cause |-> "at least one path is required"])
  ELSE IF o.task = "stats"
    THEN None
  ELSE IF o.task \in {"topk", "botk"} /\ o.k = 0
    THEN Some([path |-> 0, cause |-> "-k must be greater than 0"])
  ELSE IF o.size = 0
    THEN Some([path |-> 0, cause |-> "--size must be greater than 0"])
  ELSE IF o.hashes = 0
    THEN Some([path |-> 0, cause |-> "-h/--hashes must be greater than 0"])
  ELSE IF o.ngram = 0
    THEN Some([path |-> 0, cause |-> "-n/--ngram must be greater than 0"])
  ELSE None

\* the table the driver allocates
MainCounter(o) ==
  IF o.task = "stats" THEN <<>>
  ELSE IF o.task = "unique" THEN NewCounter(o.size, 0)
  ELSE IF o.task = "botk" THEN NewCounter(CounterSize(o.size), U32Max)
  ELSE NewCounter(CounterSize(o.size), 0)

\* opt.path = expand_dirs(&opt.path)?: each path is examined on the file
\* system; bottom-K does not call it
MainExpandDirs ==
  /\ mainPc = "main"
  /\ IF ~ExpandsDirs(opt.task)
     THEN /\ mainPc' = "validate"
          /\ UNCHANGED << result, resultErr, hist >>
     ELSE /\ hist' = [hist EXCEPT !.fs = @ \/ files # <<>>]
          /\ IF ExpandDirsError(files) # None
             THEN /\ result' = "err"
                  /\ resultErr' = ExpandDirsError(files)
                  /\ mainPc' = "exit"
             ELSE /\ mainPc' = "validate"
                  /\ UNCHANGED << result, resultErr >>
  /\ UNCHANGED << InputVars, SearchVars, OutVars, stats, counter, topk, chan, job, ExecVars, nextPath,
                  pass, output, faults >>

\* the argument checks: the first failing one bails
MainValidate ==
  /\ mainPc = "validate"
  /\ IF ValidateError(opt, files) # None
     THEN /\ result' = "err"
          /\ resultErr' = ValidateError(opt, files)
          /\ mainPc' = "exit"
     ELSE /\ mainPc' = "alloc"
          /\ UNCHANGED << result, resultErr >>
  /\ UNCHANGED << InputVars, SearchVars, OutVars, stats, counter, topk, chan, job, ExecVars, nextPath,
                  pass, output, faults, hist >>

\* the output file is created and NgramCounter::new allocates the table; the
\* driver goes on to build the executor and enqueue the paths
MainAllocate ==
  /\ mainPc = "alloc"
  /\ counter' = MainCounter(opt)
  /\ hist' = [hist EXCEPT !.fs = TRUE]
  /\ mainPc' = "enqueue"
  /\ UNCHANGED << InputVars, SearchVars, OutVars, stats, topk, chan, job, ExecVars, nextPath, pass,
                  result, resultErr, output, faults >>

InitMain ==
  \E o \in MainOpts, fs \in MainCorpora :
    /\ InitRun(o, fs)
    /\ counter = <<>>
    /\ pass = IF o.task = "botk" THEN 1 ELSE 0
    /\ mainPc = "main"

NextMain ==
  \/ MainExpandDirs
  \/ MainValidate
  \/ MainAllocate

SpecMain == InitMain /\ [][NextMain]_vars

(***************************************************************************)
(* The process (main.rs main) around the stats driver: from the parsed     *)
(* command line to the exit code.                                          *)
(***************************************************************************)
\* an empty path list, a directory without input files, a file with a record
\* that does not decode, a path without extension, a path that is no file
ExitCorpora ==
  { <<>>,
    << NotAFile("dir") >>,
    << File("gz", <<Line(<<"a">>)>>) >>,
    << File("gz", <<Line(<<"a">>), BadLine>>), File("gz", <<NoText>>) >>,
    << File("gz", <<Line(<<"a">>)>>), File("none", <<>>) >>,
    << File("gz", <<Line(<<"a">>)>>), NotAFile("missing") >>,
    << File("gz", <<Line(<<"a">>)>>), S3File(<<Line(<<"a">>)>>) >> }

ExitOpts ==
  [ task : {"stats"}, ngram : {1}, k : {1}, hashes : {1}, threshold : {0},
    seed : {0}, size : {12}, limit : {None}, workers : {None},
    p_keep : {FALSE},
    search : {<<>>}, pattern : {<<>>}, with_locations : {FALSE},
    use_u64 : {FALSE} ]

\* faulty variant: counted errors fail the process as well
ExitCodeOnAnyError == IF result = "err" \/ error_count > 0 THEN 1 ELSE 0

\* main: std::process::exit(1) when the driver returned Err, else Ok(()),
\* which the runtime turns into exit code 0
ExitCode == IF result = "err" THEN 1 ELSE 0

InitExit ==
  \E o \in ExitOpts, fs \in ExitCorpora :
    /\ InitRun(o, fs)
    /\ counter = <<>>
    /\ pass = 0
    /\ mainPc = "main"

NextExit ==
  \/ MainExpandDirs
  \/ MainValidate
  \/ MainAllocate
  \/ NextStats

SpecExit == InitExit /\ [][NextExit]_vars

(***************************************************************************)
(* The output file (get_output_file of cmd/topk.rs and cmd/botk.rs).       *)
(***************************************************************************)
\* --out: absent, a directory, a name without extension, a file name
OutPaths ==
  { None,
    Some([kind |-> "dir", name |-> "results"]),
    Some([kind |-> "noext", name |-> "run1"]),
    Some([kind |-> "file", name |-> "run1.jsonl"]) }

OutOpts ==
  [ task : {"topk", "botk"}, ngram : {1, 3}, k : {1, 20}, hashes : {2, 5},
    threshold : {1}, seed : {None, Some(0), Some(42)}, size : {12},
    limit : {None, Some(0), Some(10)}, workers : {None}, p_keep : {FALSE},
    search : {<<>>}, pattern : {<<>>}, with_locations : {FALSE}, use_u64 : {FALSE},
    out : OutPaths ]

\* [String]::join
RECURSIVE JoinParts(_, _)
JoinParts(parts, sep) ==
  IF parts = <<>> THEN ""
  ELSE IF Len(parts) = 1 THEN parts[1]
  ELSE parts[1] \o sep \o JoinParts(Tail(parts), sep)

\* Path::join
PathJoin(dir, name) == dir \o "/" \o name

\* the parts vector: the n, k, h part, then one part for the limit and one
\* for the seed when they are set
NameParts(o) ==
  << "n" \o ToString(o.ngram) \o "-k" \o ToString(o.k)
         \o "-h" \o ToString(o.hashes) >>
  \o (IF o.limit # None THEN << "-limit" \o ToString(o.limit[1]) >> ELSE <<>>)
  \o (IF o.seed # None THEN << "-seed" \o ToString(o.seed[1]) >> ELSE <<>>)

\* format!("{}.jsonl", parts.join("-"))
GeneratedName(o) == JoinParts(NameParts(o), "-") \o ".jsonl"

\* get_output_file: the path handed to util::get_output_file
GetOutputFile ==
  /\ mainPc = "out"
  /\ out_path' =
       IF opt.out = None THEN None
       ELSE IF opt.out[1].kind \in {"dir", "noext"}
         THEN Some(PathJoin(opt.out[1].name, GeneratedName(opt)))
       ELSE Some(opt.out[1].name)
  /\ mainPc' = "enqueue"
  /\ UNCHANGED << InputVars, SearchVars, stats, counter, topk, chan, job,
                  ExecVars, nextPath, pass, result, resultErr, output, faults,
                  hist >>

InitOut ==
  \E o \in OutOpts :
    /\ InitRun(o, << File("gz", <<Line(<<"a">>)>>) >>)
    /\ counter = NewCounter(CounterSize(o.size), 0)
    /\ pass = IF o.task = "botk" THEN 1 ELSE 0
    /\ mainPc = "out"

NextOut == GetOutputFile

SpecOut == InitOut /\ [][NextOut]_vars

(***************************************************************************)
(* What the input holds, computed from the files alone.                    *)
(***************************************************************************)
\* the n-grams of one record: its windows of n consecutive tokens
Windows(tokens, n) ==
  { SubSeq(tokens, p, p + n - 1) : p \in 1..(Len(tokens) - n + 1) }

\* every (file, line, position) at which a window of opt.ngram tokens starts,
\* over the lines process_file reads
Positions ==
  UNION { UNION { { << j, i, p >> :
                      p \in 1..(Len(files[j].lines[i].tokens) - opt.ngram + 1) } :
                  i \in 1..LinesToRead(j) } :
          j \in JobIds }

\* the distinct n-grams observed in the input
Observed ==
  { SubSeq(files[t[1]].lines[t[2]].tokens, t[3], t[3] + opt.ngram - 1) :
      t \in Positions }

\* the true count of a key: the number of its occurrences in the input
Occurrences(key) ==
  Cardinality({ t \in Positions :
     SubSeq(files[t[1]].lines[t[2]].tokens, t[3], t[3] + opt.ngram - 1) = key })

\* max_count(key) on the table as it stands
MaxCountOf(key) ==
  LET lanes == { LaneIndex(counter, opt.seed, h, key) : h \in 1..opt.hashes }
  IN  CHOOSE v \in { counter[i] : i \in lanes } :
        \A i \in lanes : counter[i] <= v

\* some lane of key is addressed by one hash function of key only and by no
\* other key that was counted
HasOwnLane(key) ==
  \E h \in 1..opt.hashes :
    LET i == LaneIndex(counter, opt.seed, h, key)
    IN  /\ \A g \in 1..opt.hashes :
             g # h => LaneIndex(counter, opt.seed, g, key) # i
        /\ \A other \in Keys(opt.ngram) \ {key} :
             hist.calls[other] > 0 =>
               \A g \in 1..opt.hashes :
                 LaneIndex(counter, opt.seed, g, other) # i

(***************************************************************************)
(* Properties.                                                             *)
(***************************************************************************)
\* C1 (top-K run, Spec): when join() returned Ok and the global heap is about
\* to be drained, every job has finished, the channel is empty and every
\* entry sent on the channel was received by the main thread.
C1_MergeReceivesAll ==
  mainPc = "drain" =>
    /\ \A j \in JobIds : job[j].st = "finished"
    /\ chan = <<>>
    /\ hist.recvd = hist.sent

\* C2 as stated (top-K run, Spec): the returned list holds only observed
\* n-grams and its length equals min(K, number of distinct n-grams observed).
C2_SizeIsMinKDistinct ==
  result = "ok" =>
    /\ \A i \in 1..Len(output) : output[i].ngram \in Observed
    /\ Len(output) = Min2(opt.k, Cardinality(Observed))

\* C2 amended (top-K run, Spec): the returned list holds only observed
\* n-grams, each at most once and each with a count above the threshold, and
\* its length is at most min(K, number of distinct n-grams observed).
C2_OnlyObservedAboveThreshold ==
  result = "ok" =>
    /\ \A i \in 1..Len(output) :
         /\ output[i].ngram \in Observed
         /\ output[i].count > opt.threshold
         /\ \A m \in 1..Len(output) :
              m # i => output[m].ngram # output[i].ngram
    /\ Len(output) <= Min2(opt.k, Cardinality(Observed))

\* C2 witness: a run returns a non-empty list shorter than min(K, distinct).
C2_Witness ==
  /\ result = "ok"
  /\ Len(output) > 0
  /\ Len(output) < Min2(opt.k, Cardinality(Observed))

\* the input of the bottom-K scenario: two records "x y z", n = 2, K = 2,
\* the threshold at the type's maximum, a table without shared lanes
Scenario3 ==
  /\ files = << File("gz", <<Line(<<"b", "a", "c">>), Line(<<"b", "a", "c">>)>>) >>
  /\ opt.ngram = 2
  /\ opt.k = 2
  /\ opt.threshold = U32Max
  /\ opt.size = 20

\* C3 (bottom-K run, SpecBotK): in pass 2 a drained entry is forwarded exactly
\* when its inverse count is above type_max - threshold and not below the
\* global watermark, and the scenario's output is "x y" and "y z", each with
\* count 2.
C3_ForwardUsesThresholdInv ==
  /\ \A j \in JobIds :
       (pass = 2 /\ job[j].st = "running" /\ job[j].pc = "send"
          /\ job[j].drained # <<>>) =>
         LET c == Head(job[j].drained).count
         IN  Forward(c) <=> (c > U32Max - opt.threshold /\ c >= topk.min_count)
  /\ (Scenario3 /\ result = "ok") =>
       /\ Len(output) = 2
       /\ { [ngram |-> output[i].ngram, count |-> output[i].count] :
              i \in 1..Len(output) } =
            { [ngram |-> <<"b", "a">>, count |-> 2],
              [ngram |-> <<"a", "c">>, count |-> 2] }

\* C4 (top-K run, Spec): the value an increment of key k returns is at least
\* the number of increments of k completed so far, that call included.
C4_IncrementNeverUndercounts ==
  hist.ret >= hist.truth

\* C5 as stated (bottom-K run, SpecBotK): with no lane saturated, max_count(k)
\* read in pass 2 equals type_max - true_count(k) exactly.
C5_MaxCountExact ==
  (pass = 2 /\ hist.reads > 0 /\ ~hist.sat) =>
    hist.ret = U32Max - hist.truth

\* C5 amended (bottom-K run, SpecBotK): with no lane saturated, max_count(k)
\* read in pass 2 is at most type_max - true_count(k), and equals it when
\* some lane of k is addressed by one hash function of k only and by no other
\* counted key.
C5_MaxCountAtMost ==
  (pass = 2 /\ hist.reads > 0 /\ ~hist.sat) =>
    /\ hist.ret = MaxCountOf(hist.key)
    /\ hist.truth = Occurrences(hist.key)
    /\ hist.ret <= U32Max - hist.truth
    /\ HasOwnLane(hist.key) => hist.ret = U32Max - hist.truth

\* C5 witness: pass 2 read a key whose lanes are shared: the value is strictly
\* below type_max - true_count.
C5_Witness ==
  /\ pass = 2
  /\ hist.reads > 0
  /\ ~hist.sat
  /\ hist.truth > 0
  /\ hist.ret < U32Max - hist.truth

\* C6 (bottom-K run, SpecBotK): whenever pass 2 is under way every decrement
\* of pass 1 has been applied (each key was decremented once per occurrence
\* in the input), and during pass 1 no max_count was read and no heap or
\* channel holds an entry.
C6_Pass2AfterPass1 ==
  /\ pass = 2 => \A key \in Keys(opt.ngram) : hist.calls[key] = Occurrences(key)
  /\ pass = 1 =>
       /\ hist.reads = 0
       /\ topk.entries = <<>>
       /\ chan = <<>>
       /\ \A j \in JobIds : job[j].local.entries = <<>> /\ job[j].drained = <<>>

\* C6 witness: pass 2 has read a count of an n-gram that pass 1 counted.
C6_Witness ==
  /\ pass = 2
  /\ hist.reads > 0
  /\ hist.truth > 0

\* C7 (top-K run, Spec): no worker has called data_fn on a record whose
\* top-of-record check found early_exit raised.
C7_NoDataFnAfterEarlyExit ==
  \A j \in JobIds : ~job[j].dataUnderFlag

\* C7 witness: early_exit is raised and a worker has skipped a record.
C7_Witness ==
  /\ early_exit
  /\ \E j \in JobIds : job[j].skipped > 0

\* the failed attempts of the jobs of S, summed
RECURSIVE SumFailed(_)
SumFailed(S) ==
  IF S = {} THEN 0
  ELSE LET j == CHOOSE x \in S : TRUE
       IN  job[j].failed + SumFailed(S \ {j})

C9_JoinErrIffFatal ==
  hist.join # "none" =>
    /\ hist.join = "err" <=> hist.fatal
    /\ hist.join = "err" <=> result = "err"

\* C9 witness: join() returned Ok although recoverable errors were counted.
C9_Witness ==
  /\ hist.join = "ok"
  /\ error_count > 0

\* C10 as stated (stats run, SpecStats): the error join() returns is the first
\* fatal error.
C10_ReturnsFirstFatal ==
  (hist.join = "err" /\ hist.firstFatal # None) =>
    resultErr = hist.firstFatal

\* C10 amended (stats run, SpecStats): the error join() returns is the error
\* stored last in the slot, whichever failure (fatal or recoverable) stored
\* it, and the generic error when nothing was stored.
C10_ReturnsLastRecorded ==
  hist.join = "err" =>
    resultErr = IF hist.recorded # None THEN hist.recorded
                ELSE Some([path |-> 0,
                           cause |-> "Thread worker(s) finished with errors"])

\* C10 witness: join() returned an error another job stored after the first
\* fatal error.
C10_Witness ==
  /\ hist.join = "err"
  /\ hist.firstFatal # None
  /\ resultErr # hist.firstFatal
  /\ resultErr = hist.recorded

\* C11 (top-K run, Spec): when join() returned Ok and an occurrence with
\* count c was turned down by the test against the global watermark, the
\* global heap about to be drained is full and its root count is at least c.
C11_WatermarkRejectionHarmless ==
  (mainPc = "drain" /\ hist.rej > 0) =>
    /\ Len(topk.entries) = opt.k
    /\ RootCount(topk.entries) >= hist.rej

\* C12 (top-K run, Spec): the global heap and every local heap hold at most
\* K entries, and a heap holding K entries has its min_count equal to the
\* count at its root, the smallest count it holds.
C12_HeapSizeAndWatermark ==
  \A h \in {topk} \cup { job[j].local : j \in JobIds } :
    /\ Len(h.entries) <= opt.k
    /\ Len(h.entries) = opt.k =>
         /\ h.min_count = RootCount(h.entries)
         /\ \A i \in 1..Len(h.entries) : h.min_count <= h.entries[i].count

\* C12 witness: the global heap is full after more than K inserts.
C12_Witness ==
  /\ Len(topk.entries) = opt.k
  /\ hist.recvd > opt.k

\* C13 (top-K run, Spec): no step lowers the min_count watermark the global
\* heap publishes, whether the heap is full or holds fewer than K entries.
C13_WatermarkNeverDecreases ==
  [][topk'.min_count >= topk.min_count]_vars

\* C14 (top-K run, Spec): the list drained from the global heap is sorted by
\* count descending, holds every n-gram of the heap exactly once with the
\* highest count the heap held for it, the heap is left empty, and the rank
\* written with an entry is its 1-based position.
C14_DrainSortedDeduped ==
  result = "ok" =>
    /\ topk.entries = <<>>
    /\ \A i \in 1..Len(output) :
         /\ output[i].rank = i
         /\ \A m \in 1..Len(output) :
              /\ i < m => output[i].count >= output[m].count
              /\ i # m => output[i].ngram # output[m].ngram
         /\ \E x \in 1..Len(hist.snap) :
              /\ hist.snap[x].ngram = output[i].ngram
              /\ hist.snap[x].count = output[i].count
         /\ \A x \in 1..Len(hist.snap) :
              hist.snap[x].ngram = output[i].ngram =>
                hist.snap[x].count <= output[i].count
    /\ \A x \in 1..Len(hist.snap) :
         \E i \in 1..Len(output) : output[i].ngram = hist.snap[x].ngram

\* C14 witness: the drained heap held an n-gram twice with different counts
\* and the list keeps one entry for it.
C14_Witness ==
  /\ result = "ok"
  /\ Len(output) >= 1
  /\ \E x, y \in 1..Len(hist.snap) :
       /\ hist.snap[x].ngram = hist.snap[y].ngram
       /\ hist.snap[x].count < hist.snap[y].count

\* the lane the next step of job j addresses
NextLane(j) == LaneIndex(counter, opt.seed, job[j].lane, job[j].deque)

\* C15 (top-K run, Spec; the same formula covers the decrements of bottom-K):
\* no step makes a lane wrap.  Every lane stays within type_min..type_max,
\* an increment never lowers a lane and a decrement never raises one, a lane
\* at type_max stays there under an increment and a lane at type_min stays
\* there under a decrement, and an increment of a lane at type_max yields
\* type_max: it leaves the running minimum of the call as it was, and that
\* minimum is what the call returns after its last lane.
C15_LanesNeverWrap ==
  [][ /\ \A i \in DOMAIN counter :
           /\ counter'[i] \in 0..(IF pass = 0 THEN TypeMax ELSE U32Max)
           /\ pass = 0 => counter'[i] >= counter[i]
           /\ pass = 1 => counter'[i] <= counter[i]
           /\ (pass = 0 /\ counter[i] = TypeMax) => counter'[i] = TypeMax
           /\ (pass = 1 /\ counter[i] = 0) => counter'[i] = 0
      /\ \A j \in JobIds :
           ( /\ pass = 0
             /\ job[j].pc = "data"
             /\ job'[j] # job[j]
             /\ counter[NextLane(j)] = TypeMax )
           => IF job[j].lane < opt.hashes
              THEN job'[j].acc = job[j].acc
              ELSE hist'.ret = job[j].acc ]_vars

\* C15 witness: the last increment of a call was applied to a lane standing
\* at type_max and the call returned type_max.
C15_Witness ==
  /\ hist.sat
  /\ hist.ret = TypeMax
  /\ \A l \in 1..opt.hashes :
       counter[LaneIndex(counter, opt.seed, l, hist.key)] = TypeMax

\* the n-gram that starts at a position of the input
KeyAt(t) == SubSeq(files[t[1]].lines[t[2]].tokens, t[3], t[3] + opt.ngram - 1)

\* the number of lane increments the input addresses to lane i: one for every
\* occurrence of an n-gram and every hash function that maps it to the lane
LaneLoad(i) ==
  Cardinality({ x \in Positions \X (1..opt.hashes) :
                  LaneIndex(counter, opt.seed, x[2], KeyAt(x[1])) = i })

\* C16 (top-K run, Spec): the lane values at the end of a run in which no
\* attempt failed are determined by the multiset of increments alone: each
\* lane holds the number of increments addressed to it, capped at type_max,
\* whatever the order and interleaving of the jobs and however the records
\* are spread over the files.
C16_LanesDependOnMultiset ==
  (result = "ok" /\ SumFailed(JobIds) = 0) =>
    \A i \in DOMAIN counter : counter[i] = Min2(TypeMax, LaneLoad(i))

\* C16 witness: a run over two files ended, both jobs having incremented the
\* same lane.
C16_Witness ==
  /\ result = "ok"
  /\ SumFailed(JobIds) = 0
  /\ Len(files) = 2
  /\ \E i \in DOMAIN counter : \A j \in JobIds :
       \E x \in Positions \X (1..opt.hashes) :
         /\ x[1][1] = j
         /\ LaneIndex(counter, opt.seed, x[2], KeyAt(x[1])) = i

\* the run of C17: unigrams, K = 2, a 3-lane table, one worker, one file whose
\* first record is "a b a"
Scenario17 ==
  /\ opt.ngram = 1
  /\ opt.k = 2
  /\ opt.size = 12
  /\ opt.workers = Some(1)
  /\ opt.limit = None
  /\ files = << File("gz", <<Line(<<"a", "b", "a">>), NoText>>) >>

\* the list a run of Scenario17 writes when the merge loop receives ("a", 3)
\* only after the worker has tested ("b", 2) against the watermark
Output17 ==
  << [ngram |-> <<"a">>, count |-> 3, rank |-> 1],
     [ngram |-> <<"b">>, count |-> 2, rank |-> 2] >>

\* C17 (top-K run, Spec): with one worker, the same input in the same order
\* and the same seed, every run writes the same list whatever the interleaving
\* of the worker with the merge loop of the main thread: every finished run
\* of Scenario17 writes the list that one of its runs writes.
C17_SingleWorkerSameOutput ==
  (Scenario17 /\ result = "ok") => output = Output17

\* a finished run of Scenario17 that writes Output17
C17_RunWritesBoth == Scenario17 /\ result = "ok" /\ output = Output17

\* the run of C18: unigrams, K = 2, threshold 3, a table without shared lanes,
\* one file holding "c c" and one holding "a"
Scenario18 ==
  /\ opt.ngram = 1
  /\ opt.k = 2
  /\ opt.threshold = 3
  /\ opt.size = 20
  /\ files = << File("gz", <<Line(<<"c", "c">>)>>), File("gz", <<Line(<<"a">>)>>) >>

\* the list a run of Scenario18 with p_keep writes when no draw drops an
\* admission and the merge loop receives both entries
DropOutput18 ==
  << [ngram |-> <<"a">>, count |-> 1, rank |-> 1],
     [ngram |-> <<"c">>, count |-> 2, rank |-> 2] >>

\* C18 (bottom-K run, SpecBotK): over the same input and seed, at every rank
\* the count a run without p_keep reports is at most the count a run with
\* p_keep reports: every finished run of Scenario18 without p_keep is
\* compared with the list DropOutput18 that a run with p_keep writes.
C18_NoDropAtMostDrop ==
  (Scenario18 /\ ~opt.p_keep /\ result = "ok") =>
    \A i \in 1..Min2(Len(output), Len(DropOutput18)) :
      output[i].count <= DropOutput18[i].count

\* a finished run of Scenario18 with p_keep that writes DropOutput18
C18_DropRunWrites ==
  Scenario18 /\ opt.p_keep /\ result = "ok" /\ output = DropOutput18

\* the arguments the claim names as invalid: k = 0 (top-K and bottom-K), n = 0,
\* size = 0, an empty path list
InvalidArgs ==
  \/ opt.task # "unique" /\ opt.k = 0
  \/ opt.ngram = 0
  \/ opt.size = 0
  \/ files = <<>>

\* C19 (entry points, SpecMain): with k = 0, n = 0, size = 0 or an empty path
\* list every n-gram driver ends with an error, and until then it has not
\* accessed the file system, allocated the counting table or enqueued a job.
C19_InvalidRejectedBeforeWork ==
  InvalidArgs =>
    /\ ~hist.fs
    /\ counter = <<>>
    /\ nextPath = 1
    /\ mainPc \notin {"alloc", "enqueue"}
    /\ mainPc = "exit" => result = "err"

\* the pool size as the claim states it: min(configured, CPU count, 64, #files)
StatedPoolSize ==
  Min2(Min2(IF opt.workers = None THEN 64 ELSE opt.workers[1], Min2(Cpus, 64)),
       NFiles)

\* the pool size as amended: the configured value, or min(64, CPU count) when
\* none is configured, capped by the number of files and at least 1
AmendedPoolSize ==
  LET wanted == IF opt.workers = None THEN Min2(64, Cpus) ELSE opt.workers[1]
  IN  IF wanted = 0 \/ NFiles = 0 THEN 1
      ELSE IF wanted <= NFiles THEN wanted ELSE NFiles

\* C20 as stated (stats run, SpecStats): the pool has
\* min(configured max_workers, CPU count, 64, number of files) workers, so no
\* more jobs than that run at a time.
C20_PoolSizeStated ==
  ActiveCount <= StatedPoolSize

\* C20 amended (stats run, SpecStats): the pool has max(1, min(C, number of
\* files)) workers, C being the configured max_workers or, when none is
\* configured, min(64, CPU count): no more jobs than that run at a time, and
\* a queued job is not held back while fewer are running.
C20_PoolSizeAmended ==
  /\ ActiveCount <= AmendedPoolSize
  /\ \A j \in JobIds :
       ( /\ Alive
         /\ job[j].st = "queued"
         /\ \A i \in 1..(j - 1) : job[i].st # "queued"
         /\ ActiveCount < AmendedPoolSize )
       => ENABLED JobStart(j)

\* C20 witness: with max_workers configured above the CPU count, more jobs
\* than CPUs run at a time and the pool is fully used.
C20_Witness ==
  /\ opt.workers # None
  /\ ActiveCount > Cpus
  /\ ActiveCount = AmendedPoolSize

\* C21 (top-K run, Spec): with a limit, in every attempt data_fn is invoked on
\* at most `limit` records, each among the first `limit` lines of the file and
\* numbered by its position; with limit 0 no table call is made, every lane
\* keeps its initial value and the global heap and the output stay empty.
C21_LimitBoundsRecords ==
  opt.limit # None =>
    /\ \A j \in JobIds :
         /\ job[j].n_lines <= opt.limit[1]
         /\ job[j].pc = "data" =>
              /\ job[j].line \in 1..opt.limit[1]
              /\ job[j].n_lines = job[j].line
              /\ job[j].deque \in Windows(files[j].lines[job[j].line].tokens,
                                          opt.ngram)
    /\ opt.limit[1] = 0 =>
         /\ \A i \in DOMAIN counter : counter[i] = 0
         /\ \A key \in Keys(opt.ngram) : hist.calls[key] = 0
         /\ topk.entries = <<>>
         /\ output = <<>>

\* C21 witness: a run with limit 1 over a file of more than one record has
\* ended, its job having consumed one record.
C21_Witness ==
  /\ opt.limit = Some(1)
  /\ result = "ok"
  /\ \E j \in JobIds :
       /\ Len(files[j].lines) > 1
       /\ job[j].st = "finished"
       /\ job[j].n_lines = 1
       /\ \E key \in Keys(opt.ngram) : hist.calls[key] > 0

\* no record of the input has a `text` field
AllNoText ==
  \A j \in JobIds : \A i \in 1..Len(files[j].lines) :
    files[j].lines[i].kind = "notext"

\* job j reads a record without `text` in this step
ReadsNoText(j) ==
  /\ job[j].pc = "line"
  /\ job[j].line < Len(files[j].lines)
  /\ job'[j].line = job[j].line + 1
  /\ files[j].lines[job[j].line + 1].kind = "notext"

\* C22 (top-K run, Spec): the step that reads a record without `text` changes
\* no counter lane and no heap and raises no error; a run over files in which
\* no record has `text`, with no I/O fault, ends Ok with empty output, every
\* job complete, error_count = 0 and early_exit not raised.
C22_NoTextIsSkipped ==
  [][ /\ \A j \in JobIds :
           ReadsNoText(j) =>
             /\ counter' = counter
             /\ topk' = topk
             /\ job'[j].local = job[j].local
             /\ job'[j].pc = "line"
             /\ job'[j].err = job[j].err
             /\ error_count' = error_count
             /\ early_exit' = early_exit
      /\ (AllNoText /\ faults = MaxFaults /\ mainPc' = "exit") =>
           /\ result' = "ok"
           /\ output' = <<>>
           /\ error_count' = 0
           /\ ~early_exit'
           /\ \A j \in JobIds : /\ job'[j].st = "finished"
                                /\ job'[j].line = LinesToRead(j) ]_vars

\* C22 witness: a run over files without any `text` has ended after reading
\* records, and every lane is at its initial value.
C22_Witness ==
  /\ AllNoText
  /\ mainPc = "exit"
  /\ result = "ok"
  /\ \E j \in JobIds : job[j].n_lines = 2
  /\ \A i \in DOMAIN counter : counter[i] = 0

\* the number of positions at which a term occurs contiguously in the records
\* process_file reads, overlapping occurrences included
TermOccurrences(term) ==
  Cardinality(
    UNION { UNION { { << j, i, p >> :
                        p \in { q \in 1..Len(files[j].lines[i].tokens) :
                                  LET toks == files[j].lines[i].tokens
                                  IN  /\ q + Len(term) - 1 <= Len(toks)
                                      /\ SubSeq(toks, q, q + Len(term) - 1) = term } } :
                    i \in 1..LinesToRead(j) } :
            j \in JobIds })

\* C23 (exact-count run, SpecCount): when the run succeeds, the count written
\* for each search term is the number of positions, over all processed
\* records, at which the term's tokens occur contiguously, overlapping
\* occurrences included, under every interleaving of the workers.
C23_CountIsOccurrences ==
  result = "ok" =>
    \A i \in 1..Len(output) :
      /\ output[i].tokens = opt.search[i]
      /\ output[i].count = TermOccurrences(opt.search[i])

\* C23 witness: a run over two files has ended with a term counted more than
\* once, one occurrence overlapping another ("a a" in "a a a").
C23_Witness ==
  /\ result = "ok"
  /\ Len(files) = 2
  /\ \E i \in 1..Len(output) :
       /\ output[i].tokens = <<"a", "a">>
       /\ output[i].count = 2

\* the number of locations a pattern's map holds over the paths of S
RECURSIVE SumLocations(_, _)
SumLocations(m, S) ==
  IF S = {} THEN 0
  ELSE LET j == CHOOSE x \in S : TRUE
       IN  Len(m[j]) + SumLocations(m, S \ {j})

\* C24 (regex-search run, SpecSearch): when a run with --with-locations ends
\* Ok, the locations written for each pattern, summed over the files, are as
\* many as the pattern's written count.
C24_LocationsMatchCount ==
  (result = "ok" /\ opt.with_locations) =>
    \A i \in 1..Len(output) :
      SumLocations(output[i].matches, JobIds) = output[i].count

\* a finished run with --with-locations whose locations are as many as the
\* counts, three for the pattern "a"
C24_RunWritesAll ==
  /\ result = "ok"
  /\ opt.with_locations
  /\ \A i \in 1..Len(output) :
       SumLocations(output[i].matches, JobIds) = output[i].count
  /\ \E i \in 1..Len(output) : output[i].count = 3

\* the run met a fatal error: an argument the driver rejects (a directory
\* without input files, an empty path list, a path that is no file), a job
\* that failed after its retries or a worker that panicked
FatalError ==
  \/ ExpandDirsError(files) # None
  \/ ValidateError(opt, files) # None
  \/ \E i \in 1..Len(files) : ~IsFile(files[i])
  \/ hist.fatal

\* C25 (process around the stats driver, SpecExit): when the driver has
\* returned, the exit code is 1 if the run met a fatal error (invalid
\* arguments, a file that failed after its retries and the cancellation it
\* causes, a worker panic) and 0 otherwise; errors that were only counted do
\* not change it.
C25_ExitCode ==
  mainPc = "exit" =>
    /\ ExitCode = 1 <=> FatalError
    /\ ExitCode = 0 <=> ~FatalError
    /\ (error_count > 0 /\ ~early_exit /\ panic_count = 0 /\ hist.join = "ok")
         => ExitCode = 0

\* C25 witness: the process ends with code 0 after a job failed an attempt,
\* was retried and completed.
C25_Witness ==
  /\ mainPc = "exit"
  /\ ExitCode = 0
  /\ error_count > 0
  /\ \E j \in JobIds : job[j].retries > 0 /\ job[j].st = "finished"

\* C26 (output file, SpecOut): when --out is a directory or a name without
\* extension, the file opened is, inside it, n{n}-k{k}-h{hashes}, followed by
\* -limit{l} if a limit is set, followed by -seed{s} if a seed is set,
\* followed by .jsonl.
C26_GeneratedName ==
  (out_path # None /\ opt.out[1].kind \in {"dir", "noext"}) =>
    out_path[1] =
      opt.out[1].name \o "/"
        \o "n" \o ToString(opt.ngram) \o "-k" \o ToString(opt.k)
        \o "-h" \o ToString(opt.hashes)
        \o (IF opt.limit # None THEN "-limit" \o ToString(opt.limit[1]) ELSE "")
        \o (IF opt.seed # None THEN "-seed" \o ToString(opt.seed[1]) ELSE "")
        \o ".jsonl"

\* the name generated for -n 3 -k 20 -h 5 --limit 10 --seed 42 into a
\* directory
C26_DoubleHyphen ==
  /\ opt.out # None
  /\ out_path = Some(opt.out[1].name \o "/n3-k20-h5--limit10--seed42.jsonl")

\* without limit and seed the generated name is the stated one
C26_PlainName ==
  (out_path # None /\ opt.out[1].kind \in {"dir", "noext"}
     /\ opt.limit = None /\ opt.seed = None) =>
    out_path[1] =
      opt.out[1].name \o "/n" \o ToString(opt.ngram) \o "-k" \o ToString(opt.k)
        \o "-h" \o ToString(opt.hashes) \o ".jsonl"

\* C27 (top-K run under fair scheduling, SpecFair): once early_exit is
\* raised the driver returns: every worker job terminates and join() comes
\* back, no worker stays blocked on a send to the merger channel.
C27_ExitAfterEarlyExit ==
  early_exit ~> (mainPc = "exit")

\* a worker blocked on tx.send with the channel full while the main thread,
\* past the merge loop, waits in join() for the pool
C27_BlockedSender ==
  /\ early_exit
  /\ mainPc = "join"
  /\ Len(chan) = ChanCap
  /\ \E j \in JobIds : job[j].st = "running" /\ job[j].pc = "tx"
  /\ \A j \in JobIds : job[j].st = "running" => job[j].pc = "tx"
  /\ \A j \in JobIds : job[j].st # "queued"

\* an attempt of some job failed or a worker panicked
JobFailed ==
  \/ panic_count > 0
  \/ early_exit
  \/ \E j \in JobIds : job[j].failed > 0

\* C28 (top-K run under fair scheduling, SpecFair): if no job ever fails,
\* then eventually every enqueued job has completed, done() is true, the
\* main thread is past the merge loop and join() has returned Ok.
C28_CompletesWithoutFailure ==
  ([]~JobFailed) =>
    <>(/\ \A j \in JobIds : job[j].st = "finished"
       /\ Done
       /\ mainPc \in {"drain", "exit"}
       /\ hist.join = "ok")

\* C28 witness: a run of two jobs without failure has ended Ok after a
\* worker sent more entries than the channel holds.
C28_Witness ==
  /\ ~JobFailed
  /\ NFiles = 2
  /\ \A j \in JobIds : job[j].st = "finished"
  /\ hist.join = "ok"
  /\ result = "ok"
  /\ hist.sent > ChanCap

\* the window a pending handler call of job j is made with: the opt.ngram
\* tokens of the current record that end at the job's position
WindowInOrder(j) ==
  job[j].pc = "data" =>
    /\ job[j].tok \in opt.ngram..Len(CurTokens(j))
    /\ job[j].deque =
         SubSeq(CurTokens(j), job[j].tok - opt.ngram + 1, job[j].tok)

\* C29 (top-K run, Spec): for a record of T tokens the per-key handler is
\* invoked max(0, T - n + 1) times, the i-th time with the tokens i .. i+n-1:
\* a record that is processed leads to a first call on the tokens 1 .. n when
\* T >= n and to no call otherwise, a completed call on the window ending at
\* token t < T is followed by the call on the window ending at t + 1, the
\* call on the window ending at T is the record's last, and no window holds
\* a token of another record.
C29_OneCallPerWindow ==
  [][\A j \in JobIds :
       /\ WindowInOrder(j)
       /\ WindowInOrder(j)'
       /\ (/\ job[j].pc = "line"
           /\ job'[j].line = job[j].line + 1
           /\ job'[j].n_lines = job[j].n_lines + 1
           /\ job'[j].pc # "err") =>
            IF Len(files[j].lines[job'[j].line].tokens) >= opt.ngram
            THEN job'[j].pc = "data" /\ job'[j].tok = opt.ngram
            ELSE job'[j].pc = "line"
       /\ (job[j].pc = "data" /\ job'[j] # job[j]) =>
            IF job[j].lane < opt.hashes
            THEN /\ job'[j].pc = "data"
                 /\ job'[j].tok = job[j].tok
                 /\ job'[j].deque = job[j].deque
            ELSE IF job[j].tok < Len(CurTokens(j))
            THEN /\ job'[j].pc = "data"
                 /\ job'[j].line = job[j].line
                 /\ job'[j].tok = job[j].tok + 1
            ELSE job'[j].pc = "line"
  ]_vars

\* C29 witness: the second call of the second record of a file is pending,
\* on the record's tokens 2 .. n+1, after the call on its tokens 1 .. n.
C29_Witness ==
  \E j \in JobIds :
    /\ job[j].pc = "data"
    /\ job[j].line = 2
    /\ job[j].tok = opt.ngram + 1
    /\ job[j].deque = SubSeq(CurTokens(j), 2, opt.ngram + 1)
    /\ hist.calls[SubSeq(CurTokens(j), 1, opt.ngram)] > 0

\* job j completes an increment call in this step: its last lane is written
CallCompletes(j) ==
  /\ job[j].st = "running"
  /\ job[j].pc = "data"
  /\ job[j].lane = opt.hashes
  /\ job'[j] # job[j]

\* C30 as stated (top-K run, SpecFair): the occurrence is inserted into the
\* worker's local heap exactly when the count increment returned is strictly
\* greater than the threshold, than the local heap's watermark and than the
\* global heap's published watermark.
C30_AdmitsAboveWatermarks ==
  [][\A j \in JobIds :
       CallCompletes(j) =>
         job'[j].local =
           IF /\ hist'.ret > opt.threshold
              /\ hist'.ret > job[j].local.min_count
              /\ hist'.ret > topk.min_count
           THEN TopKInsert(job[j].local, job[j].deque, hist'.ret)
           ELSE job[j].local
  ]_vars

\* C30 amended (top-K run, SpecFair): the occurrence is inserted into the
\* worker's local heap exactly when the count increment returned is strictly
\* greater than the threshold and at least the local heap's watermark and at
\* least the global heap's published watermark.
C30_AdmitsAtWatermarks ==
  [][\A j \in JobIds :
       CallCompletes(j) =>
         job'[j].local =
           IF /\ hist'.ret > opt.threshold
              /\ hist'.ret >= job[j].local.min_count
              /\ hist'.ret >= topk.min_count
           THEN TopKInsert(job[j].local, job[j].deque, hist'.ret)
           ELSE job[j].local
  ]_vars

\* C30 witness: a local heap holds two entries of different n-grams with the
\* same count, the second admitted with a count equal to the watermark the
\* first one set.
C30_Witness ==
  \E j \in JobIds :
    /\ Len(job[j].local.entries) = 2
    /\ job[j].local.entries[1].count = job[j].local.entries[2].count
    /\ job[j].local.entries[1].ngram # job[j].local.entries[2].ngram
    /\ job[j].local.min_count = job[j].local.entries[2].count

\* execute_with_callback has been called for path i: the path was enqueued,
\* or the driver returned the error of the call
PathChecked(i) ==
  \/ i < nextPath
  \/ /\ i = nextPath
     /\ mainPc = "exit"
     /\ resultErr = Some([path |-> i, cause |-> "not a file"])

\* C31 (process around the stats driver, SpecExit): the per-job path check
\* accepts a path exactly when it is a regular file or an s3:// URI; for any
\* other path an error is returned, early_exit is raised and no job for the
\* path runs.
C31_AcceptsFileOrRemote ==
  \A i \in JobIds :
    PathChecked(i) =>
      IF IsFile(files[i]) \/ IsS3(files[i])
      THEN job[i].st # "idle"
      ELSE /\ result = "err"
           /\ early_exit
           /\ job[i].st = "idle"
           /\ job[i].attempts = 0

\* the check rejects an s3:// URI: the driver has returned its error, the
\* flag is raised and the path has no job
C31_RemoteRejected ==
  \E i \in JobIds :
    /\ IsS3(files[i])
    /\ PathChecked(i)
    /\ result = "err"
    /\ early_exit
    /\ job[i].st = "idle"

\* regular files are accepted and every other path, s3:// URIs included,
\* fails fast
C31_AcceptsFileOnly ==
  \A i \in JobIds :
    PathChecked(i) =>
      IF IsFile(files[i])
      THEN job[i].st # "idle"
      ELSE /\ result = "err"
           /\ early_exit
           /\ job[i].st = "idle"
           /\ job[i].attempts = 0

\* the records process_file reads, and the tokens they hold
AllRecords ==
  UNION { { << j, i >> : i \in 1..LinesToRead(j) } : j \in JobIds }

AllTokens ==
  UNION { { << t[1], t[2], p >> :
              p \in 1..Len(files[t[1]].lines[t[2]].tokens) } : t \in AllRecords }

\* C32 (stats run, SpecStats): a record is counted at most once also when its
\* file is retried: the shared totals and total_lines never exceed the
\* records and tokens of the input and equal them when the run ends Ok; the
\* local state of an attempt holds the records of that attempt only, so what
\* the merge callback adds is the state of one complete attempt.
C32_CountedOnce ==
  /\ stats.total_documents <= Cardinality(AllRecords)
  /\ stats.total_tokens <= Cardinality(AllTokens)
  /\ total_lines <= Cardinality(AllRecords)
  /\ result = "ok" =>
       /\ stats.total_documents = Cardinality(AllRecords)
       /\ stats.total_tokens = Cardinality(AllTokens)
       /\ total_lines = Cardinality(AllRecords)
  /\ \A j \in JobIds :
       /\ (job[j].st = "running" /\ job[j].pc \notin {"open", "err", "errw",
                                                      "retry", "fatalw"}) =>
            job[j].local.total_documents = job[j].n_lines
       /\ (job[j].st = "running" /\ job[j].pc = "sync_counts" /\ ~early_exit) =>
            job[j].local.total_documents = LinesToRead(j)

\* C32 witness: the run ended Ok with the exact totals after a job of two
\* records failed while reading and was retried.
C32_Witness ==
  /\ result = "ok"
  /\ stats.total_documents = Cardinality(AllRecords)
  /\ hist.recorded # None
  /\ hist.recorded[1].cause = "read"
  /\ \E j \in JobIds :
       /\ job[j].retries > 0
       /\ Len(files[j].lines) = 2
       /\ hist.recorded[1].path = j

\* C33 (stats run, SpecStats): when the stats run has ended Ok, every pointer
\* of max_token_documents has the final document_max_tokens as num_tokens
\* and every pointer of min_token_documents the final document_min_tokens.
C33_PointersAreExtreme ==
  (mainPc = "exit" /\ result = "ok") =>
    /\ \A i \in 1..Len(stats.max_token_documents) :
         stats.max_token_documents[i].num_tokens = stats.document_max_tokens
    /\ \A i \in 1..Len(stats.min_token_documents) :
         stats.min_token_documents[i].num_tokens = stats.document_min_tokens

\* a finished stats run whose pointers all hold the extreme token counts,
\* with pointers from two files
C33_RunKeepsExtremes ==
  /\ mainPc = "exit"
  /\ result = "ok"
  /\ Len(stats.max_token_documents) > 0
  /\ \A i \in 1..Len(stats.max_token_documents) :
       stats.max_token_documents[i].num_tokens = stats.document_max_tokens
  /\ \A i \in 1..Len(stats.min_token_documents) :
       stats.min_token_documents[i].num_tokens = stats.document_min_tokens
  /\ \E i, m \in 1..Len(stats.min_token_documents) :
       stats.min_token_documents[i].path # stats.min_token_documents[m].path

\* C34 (merge loop of the top-K driver, SpecFair): with early_exit raised the
\* merge loop inserts at most one more received entry into the global heap,
\* and after that entry it does not receive again: it tests has_errors(),
\* breaks, finds done() true and goes on to join().
C34_OneEntryAfterEarlyExit ==
  /\ hist.late <= 1
  /\ hist.late = 1 => mainPc \notin {"recv", "start"}
  /\ (early_exit /\ mainPc = "recv") => hist.late = 0

\* early_exit was raised while the main thread waited in recv_timeout; one
\* entry was inserted after it, another one is in the channel, and the main
\* thread has left the loop
C34_Witness ==
  /\ hist.late = 1
  /\ chan # <<>>
  /\ mainPc \in {"join", "exit", "drain"}

\* the attempt of job j has left the loop of process_file without an error
\* and is in callback(context)
InCallback(j) ==
  /\ job[j].st = "running"
  /\ job[j].pc \notin {"open", "line", "data", "err", "errw", "retry",
                       "fatalw"}

\* C35 (process_file, top-K run): the merge callback of a job runs only after
\* every record of the file, up to the limit, has been passed to data_fn
\* without error: an attempt that is in its callback has decoded and handled
\* as many records as the file offers.
C35_MergeAfterEveryRecord ==
  \A j \in JobIds : InCallback(j) => job[j].n_lines = LinesToRead(j)

\* what the loop guarantees: an attempt in its callback has read every record
\* without a read or decode error; records read after early_exit was raised
\* were dropped without data_fn
C35_MergeAfterLoop ==
  \A j \in JobIds :
    InCallback(j) =>
      /\ job[j].line = LinesToRead(j)
      /\ job[j].n_lines <= LinesToRead(j)
      /\ job[j].n_lines < LinesToRead(j) => early_exit

\* a cancelled attempt merges: its callback runs although records of its file
\* never reached data_fn
C35_CancelledAttemptMerges ==
  \E j \in JobIds :
    /\ InCallback(j)
    /\ job[j].n_lines < LinesToRead(j)
    /\ job[j].skipped > 0

(***************************************************************************)
(* The unique run (cmd/unique.rs): one table of 8-bit lanes, initial value *)
(* 0, incremented once per n-gram; the output is taken from nonzero().     *)
(***************************************************************************)
UniqueCorpora ==
  { << File("gz", <<Line(<<"a", "a", "a">>)>>),
       File("gz", <<Line(<<"a", "a", "a">>)>>) >>,
    << File("gz", <<Line(<<"a", "b">>), Line(<<"b", "a", "a">>)>>) >>,
    << File("gz", <<Line(<<"a", "b", "a">>)>>), File("gz", <<Line(<<"b">>)>>) >>,
    << File("gz", <<Line(<<"c", "a">>), NoText>>),
       File("gz", <<Line(<<"a", "c", "c">>)>>) >>,
    << File("gz", <<Line(<<"b", "a">>), BadLine>>) >> }

UniqueOpts ==
  [ task : {"unique"}, ngram : {1, 2}, k : {1}, hashes : {2}, threshold : {0},
    seed : {0}, size : {3, 5}, limit : {None, Some(1)}, workers : {None},
    p_keep : {FALSE},
    search : {<<>>}, pattern : {<<>>}, with_locations : {FALSE},
    use_u64 : {FALSE} ]

\* One lane of ngram_counts.increment(&ngram_deque, 1) in collect_ngrams of
\* the unique driver; the returned count is not used.
UniqueCollect(j) ==
  /\ Running(j)
  /\ opt.task = "unique"
  /\ job[j].pc = "data"
  /\ LET jb == job[j]
         key == jb.deque
         idx == LaneIndex(counter, opt.seed, jb.lane, key)
     IN  /\ counter' = IncrementLane(counter, idx, 1)
         /\ IF jb.lane < opt.hashes
            THEN /\ job' = [job EXCEPT ![j].lane = @ + 1]
                 /\ hist' = [hist EXCEPT !.sat = @ \/ counter[idx] = TypeMax]
            ELSE /\ job' = [job EXCEPT ![j] =
                       NextWindow(jb, CurTokens(j), jb.tok, jb.deque)]
                 /\ hist' = [hist EXCEPT !.calls[key] = @ + 1,
                                         !.sat = @ \/ counter[idx] = TypeMax]
  /\ UNCHANGED << InputVars, SearchVars, OutVars, stats, topk, chan, ExecVars,
                  MainVars, faults >>

\* the lanes nonzero() counts: those that differ from the initial value 0
NonzeroLanes(c) == { i \in DOMAIN c : c[i] # 0 }

\* NgramCounter::nonzero, before the cardinality correction
Nonzero(c) == Cardinality(NonzeroLanes(c))

\* ngram_counts.nonzero() after executor.join()?, and the output
UniqueEmit ==
  /\ mainPc = "drain"
  /\ opt.task = "unique"
  /\ output' = << Nonzero(counter) >>
  /\ result' = "ok"
  /\ mainPc' = "exit"
  /\ UNCHANGED << InputVars, SearchVars, OutVars, stats, counter, topk, chan,
                  job, ExecVars, nextPath, pass, resultErr, faults, hist >>

InitUnique ==
  \E o \in UniqueOpts, fs \in UniqueCorpora :
    /\ InitRun(o, fs)
    /\ counter = MainCounter(o)
    /\ pass = 0
    /\ mainPc = "enqueue"

NextUnique ==
  \/ Enqueue
  \/ Join
  \/ UniqueEmit
  \/ \E j \in JobIds : JobStart(j)
  \/ \E j \in JobIds : ProcessFileOpen(j)
  \/ \E j \in JobIds : ProcessFileLine(j)
  \/ \E j \in JobIds : UniqueCollect(j)
  \/ \E j \in JobIds : JobCallback(j)
  \/ \E j \in JobIds : JobError(j)
  \/ \E j \in JobIds : JobErrorWrite(j)
  \/ \E j \in JobIds : JobRetry(j)

SpecUnique == InitUnique /\ [][NextUnique]_vars

\* the lanes the table addresses for a key
LanesOf(key) ==
  { LaneIndex(counter, opt.seed, h, key) : h \in 1..opt.hashes }

\* the distinct n-grams of the records process_file reads
SeenKeys ==
  { SubSeq(files[p[1]].lines[p[2]].tokens, p[3], p[3] + opt.ngram - 1) :
      p \in Positions }

\* C36 (unique run, SpecUnique): a lane that an increment call has touched
\* does not hold the initial value 0 again, so that the number of lanes
\* nonzero() counts is fixed by the set of distinct n-grams seen: after a
\* run that ended Ok the lanes that differ from 0 are exactly the lanes of
\* the distinct n-grams of the input, whatever their multiplicities and the
\* interleaving of the workers.
C36_NonzeroBySetOfKeys ==
  /\ \A key \in Keys(opt.ngram) :
       hist.calls[key] > 0 => \A i \in LanesOf(key) : counter[i] # 0
  /\ NonzeroLanes(counter) \subseteq UNION { LanesOf(key) : key \in SeenKeys }
  /\ result = "ok" =>
       /\ NonzeroLanes(counter) = UNION { LanesOf(key) : key \in SeenKeys }
       /\ output = << Cardinality(UNION { LanesOf(key) : key \in SeenKeys }) >>

\* a finished run in which one n-gram was incremented more often than a lane
\* can count: its lanes are pinned at the maximum and counted as nonzero
C36_Witness ==
  /\ result = "ok"
  /\ \E key \in Keys(opt.ngram) :
       /\ hist.calls[key] > TypeMax
       /\ \A i \in LanesOf(key) : counter[i] = TypeMax
  /\ output # << 0 >>

(***************************************************************************)
(* The top-K run with either lane type (topk::<AtomicU32> or, with --u64,  *)
(* topk::<AtomicU64>) over inputs that repeat one n-gram more often than a *)
(* 32-bit lane counts.                                                     *)
(***************************************************************************)
OverflowCorpora ==
  { << File("gz", <<Line(<<"a", "a", "a">>)>>),
       File("gz", <<Line(<<"a", "a", "a">>)>>) >>,
    << File("gz", <<Line(<<"a", "a", "a", "a", "a", "a">>)>>) >>,
    << File("gz", <<Line(<<"a", "a", "a", "a">>)>>),
       File("gz", <<Line(<<"b", "b">>)>>) >>,
    << File("gz", <<Line(<<"a", "a", "a">>), Line(<<"a", "a", "a">>)>>),
       File("gz", <<Line(<<"c", "c">>)>>) >> }

OverflowOpts ==
  [ task : {"topk"}, ngram : {1}, k : {1, 2}, hashes : {2}, threshold : {1},
    seed : {0}, size : {20}, limit : {None}, workers : {None},
    p_keep : {FALSE},
    search : {<<>>}, pattern : {<<>>}, with_locations : {FALSE},
    use_u64 : BOOLEAN ]

InitOverflow ==
  \E o \in OverflowOpts, fs \in OverflowCorpora :
    /\ InitRun(o, fs)
    /\ counter = NewCounter(CounterSize(o.size), 0)
    /\ pass = 0
    /\ mainPc = "enqueue"

SpecOverflow == InitOverflow /\ [][Next]_vars

\* the written list holds an entry whose count is the lane type's maximum
ListAtMax == \E i \in 1..Len(output) : output[i].count = LaneMax

\* what the code does: after a run that returned Ok the warning was logged
\* exactly when an entry of the written list has the lane type's maximum as
\* its count; with 64-bit lanes no n-gram of these inputs gets there
C37_WarnsIffEntryAtMax ==
  (mainPc = "exit" /\ result = "ok") =>
    /\ hist.warn <=> ListAtMax
    /\ opt.use_u64 => ~hist.warn

\* C37 (top-K run with either lane type, SpecOverflow): the overflow warning
\* is logged exactly when an entry of the final list has the lane type's
\* maximum as its count; an n-gram inserted more often than a 32-bit lane
\* counts is written with the maximum as its count and the warning is
\* logged, and with 64-bit lanes the same input logs no warning.
C37_OverflowWarning ==
  (mainPc = "exit" /\ result = "ok") =>
    /\ hist.warn <=> ListAtMax
    /\ opt.use_u64 => ~hist.warn
    /\ \A key \in Keys(opt.ngram) :
         (~opt.use_u64 /\ hist.calls[key] > TypeMax) =>
           /\ \E i \in 1..Len(output) :
                output[i].ngram = key /\ output[i].count = TypeMax
           /\ hist.warn

\* a run with 32-bit lanes that wrote an n-gram inserted more often than the
\* lane counts, with the maximum as its count, and logged the warning
C37_WarnedAtMax ==
  /\ mainPc = "exit"
  /\ result = "ok"
  /\ ~opt.use_u64
  /\ hist.warn
  /\ \E i \in 1..Len(output) :
       output[i].count = TypeMax /\ hist.calls[output[i].ngram] > TypeMax

\* a run with 64-bit lanes that wrote an n-gram with a count above the
\* 32-bit maximum and logged no warning
C37_WideNotWarned ==
  /\ mainPc = "exit"
  /\ result = "ok"
  /\ opt.use_u64
  /\ ~hist.warn
  /\ \E i \in 1..Len(output) : output[i].count > TypeMax

\* a run with 32-bit lanes that returned Ok without the n-gram that was
\* inserted more often than the lane counts, and without the warning
C37_OverflowUnreported ==
  /\ mainPc = "exit"
  /\ result = "ok"
  /\ ~opt.use_u64
  /\ ~hist.warn
  /\ \E key \in Keys(opt.ngram) :
       /\ hist.calls[key] > TypeMax
       /\ \A i \in 1..Len(output) : output[i].ngram # key

(***************************************************************************)
(* The last-error slot under a panic (execute_with_callback, join): the    *)
(* guard of error.try_lock() is alive while the message is formatted and   *)
(* assigned; a worker that panics there dies with the guard, the mutex is  *)
(* poisoned and every later try_lock returns Err.                          *)
(***************************************************************************)
\* the worker panics inside the guarded assignment; the pool counts the panic
JobErrorPanic(j) ==
  /\ Running(j)
  /\ job[j].pc \in {"errw", "fatalw"}
  /\ errorLock = j
  /\ job' = [job EXCEPT ![j].st = "panicked"]
  /\ panic_count' = panic_count + 1
  /\ hist' = [hist EXCEPT !.fatal = TRUE]
  /\ UNCHANGED << InputVars, SearchVars, OutVars, stats, counter, topk, chan,
                  early_exit, error, errorLock, error_count, total_lines,
                  max_retries, MainVars, faults >>

\* the mutex of the slot is poisoned: its guard died with a panicked worker
Poisoned == errorLock # 0 /\ job[errorLock].st = "panicked"

NextPoison ==
  \/ Next
  \/ \E j \in JobIds : JobErrorPanic(j)

SpecPoison == InitFair /\ [][NextPoison]_vars

\* C38 (DataExecutor::join, SpecPoison): when the mutex of the last-error
\* slot is poisoned, or cannot be acquired when join() runs, join() does not
\* return Ok and the run does not end with success.
C38_NoSuccessWhenPoisoned ==
  /\ errorLock # 0 => (hist.join # "ok" /\ result # "ok")
  /\ (Poisoned /\ hist.join # "none") =>
       /\ hist.join = "err"
       /\ result = "err"
       /\ resultErr =
            Some([path |-> 0, cause |-> "Thread worker(s) finished with errors"])

\* join() has run with the mutex poisoned and early_exit never raised: it
\* failed on the panic count alone, with the generic error
C38_Witness ==
  /\ Poisoned
  /\ ~early_exit
  /\ hist.join = "err"
  /\ result = "err"
====
